---------------------------- MODULE Spec2Model ----------------------------
(***************************************************************************)
(* A model of the feature consolidation engine of maplumi/ipc-areas:       *)
(* the identity resolver (feature_key, in its three copies), the merge of  *)
(* feature batches into one aggregate (IPCAreaDownloader.merge_features),  *)
(* the sorted read-out of the aggregate and the combiner                   *)
(* (collect_all_features).                                                 *)
(*                                                                         *)
(* Python values are modelled as tagged records, so that None, strings and *)
(* integers can be told apart and compared: [null |-> TRUE] is None,       *)
(* [str |-> s] a string, [int |-> n] an integer.  Strings are TLA+         *)
(* strings; their characters are one-character strings.                    *)
(***************************************************************************)
EXTENDS Integers, Sequences, FiniteSets, TLC

VARIABLES
    aggregate,       \* merge_features' aggregate: key -> candidate
    stats,           \* the stats dict of the current / last merge_features call
    call,            \* the merge_features call in progress: its arguments and loop index
    nfeatures,       \* number of features handed to the aggregate so far
    submitted,       \* history: the key and the candidate of every feature a merge loop has processed
    history,         \* history: the merge_features calls made so far, in call order
    final_features,  \* the feature list read out of the aggregate / returned by the combiner
    mode,            \* where the program is: "start", "merge", "readout", "combine", "combined", "keys", "ids", "simplify"
    probe,           \* the input handed to the pure function under study and what it returned
    simplify         \* the state of one simplify_topojson run

vars == <<aggregate, stats, call, nfeatures, submitted, history, final_features, mode, probe,
          simplify>>

---------------------------------------------------------------------------
(* Python values *)

None == [null |-> TRUE]

StrVal(s) == [str |-> s]

IntVal(n) == [int |-> n]

IsNone(v) == "null" \in DOMAIN v

IsStr(v) == "str" \in DOMAIN v

IsInt(v) == "int" \in DOMAIN v

---------------------------------------------------------------------------
(* Strings: code points, case, whitespace *)

\* The printable ASCII characters in code point order: 32 (space) to 95, and 97 to
\* 126 (the grave accent, 96, cannot be written in a TLA+ string and is left out).
AsciiLow == " !\"#$%&'()*+,-./0123456789:;<=>?@ABCDEFGHIJKLMNOPQRSTUVWXYZ[\\]^_"

AsciiHigh == "abcdefghijklmnopqrstuvwxyz{|}~"

\* chr(n), for the characters above.
Chr(n) ==
    IF n < 96 THEN SubSeq(AsciiLow, n - 31, n - 31)
    ELSE SubSeq(AsciiHigh, n - 96, n - 96)

\* ord(c): the code point of a character (tab is 9).
Ord(c) ==
    IF c = "\t" THEN 9
    ELSE IF \E i \in 1..Len(AsciiLow) : SubSeq(AsciiLow, i, i) = c
         THEN 31 + (CHOOSE i \in 1..Len(AsciiLow) : SubSeq(AsciiLow, i, i) = c)
         ELSE 96 + (CHOOSE i \in 1..Len(AsciiHigh) : SubSeq(AsciiHigh, i, i) = c)

\* str.isspace for one character.
IsSpace(c) == c \in {" ", "\t"}

\* str.lower for one character.
LowerChar(c) ==
    IF c \in {"A","B","C","D","E","F","G","H","I","J","K","L","M",
              "N","O","P","Q","R","S","T","U","V","W","X","Y","Z"}
    THEN Chr(Ord(c) + 32)
    ELSE c

RECURSIVE Lower(_)
\* str.lower
Lower(s) ==
    IF s = "" THEN "" ELSE LowerChar(Head(s)) \o Lower(Tail(s))

RECURSIVE LStrip(_)
LStrip(s) ==
    IF s = "" THEN ""
    ELSE IF IsSpace(Head(s)) THEN LStrip(Tail(s)) ELSE s

RECURSIVE RStrip(_)
RStrip(s) ==
    IF s = "" THEN ""
    ELSE IF IsSpace(SubSeq(s, Len(s), Len(s)))
         THEN RStrip(SubSeq(s, 1, Len(s) - 1))
         ELSE s

\* str.strip
Strip(s) == RStrip(LStrip(s))

RECURSIVE SplitFrom(_, _)
\* str.split() with no argument: the maximal runs of non-whitespace, in order.
\* cur is the word being read.
SplitFrom(s, cur) ==
    IF s = "" THEN (IF cur = "" THEN <<>> ELSE <<cur>>)
    ELSE IF IsSpace(Head(s))
         THEN (IF cur = "" THEN <<>> ELSE <<cur>>) \o SplitFrom(Tail(s), "")
         ELSE SplitFrom(Tail(s), cur \o Head(s))

Split(s) == SplitFrom(s, "")

RECURSIVE Join(_, _)
\* sep.join(words)
Join(sep, words) ==
    IF words = <<>> THEN ""
    ELSE IF Len(words) = 1 THEN words[1]
    ELSE words[1] \o sep \o Join(sep, Tail(words))

RECURSIVE StrLess(_, _)
\* a < b on Python strings: lexicographic by code point, a proper prefix first.
StrLess(a, b) ==
    IF b = "" THEN FALSE
    ELSE IF a = "" THEN TRUE
    ELSE IF Head(a) = Head(b) THEN StrLess(Tail(a), Tail(b))
    ELSE Ord(Head(a)) < Ord(Head(b))

RECURSIVE NatToStr(_)
NatToStr(n) ==
    IF n < 10 THEN Chr(48 + n)
    ELSE NatToStr(n \div 10) \o Chr(48 + (n % 10))

\* str(n) for an integer.
IntToStr(n) == IF n < 0 THEN "-" \o NatToStr(-n) ELSE NatToStr(n)

\* str(v) for a string or an integer.
PyStr(v) == IF IsInt(v) THEN IntToStr(v.int) ELSE v.str

---------------------------------------------------------------------------
(* JSON and hashing *)

RECURSIVE JsonInts(_)
\* The items of a JSON array of integers, joined by ", ".
JsonInts(xs) ==
    IF xs = <<>> THEN ""
    ELSE IF Len(xs) = 1 THEN IntToStr(xs[1])
    ELSE IntToStr(xs[1]) \o ", " \o JsonInts(Tail(xs))

\* json.dumps of None, a string or an integer.
JsonScalar(v) ==
    IF IsNone(v) THEN "null"
    ELSE IF IsInt(v) THEN IntToStr(v.int)
    ELSE "\"" \o v.str \o "\""

\* json.dumps(geometry, sort_keys=True): the keys in sorted order, "coordinates"
\* before "type".
JsonGeometry(geometry) ==
    IF IsNone(geometry) THEN "null"
    ELSE "{\"coordinates\": [" \o JsonInts(geometry.coordinates)
         \o "], \"type\": \"" \o geometry.type \o "\"}"

\* json.dumps(props, sort_keys=True).
JsonProperties(props) ==
    "{\"id\": " \o JsonScalar(props.id)
    \o ", \"iso3\": " \o JsonScalar(props.iso3)
    \o ", \"title\": " \o JsonScalar(props.title)
    \o ", \"year\": " \o JsonScalar(props.year) \o "}"

\* json.dumps(feature, sort_keys=True).
JsonFeature(feature) ==
    "{\"geometry\": " \o JsonGeometry(feature.geometry)
    \o ", \"properties\": " \o JsonProperties(feature.properties)
    \o ", \"type\": \"Feature\"}"

\* hashlib.sha1(text.encode('utf-8')).hexdigest(), taken to be free of collisions:
\* the digest stands for the text it was computed from and for nothing else.
Sha1HexDigest(text) == "sha1(" \o text \o ")"

---------------------------------------------------------------------------
(* The identity resolver *)

\* (value or ''), for a string or None.
OrEmpty(v) == IF IsNone(v) THEN "" ELSE v.str

\* IPCAreaDownloader.normalize_title / normalize_title
normalize_title(title) ==
    IF IsNone(title) \/ title.str = "" THEN ""
    ELSE Lower(Strip(Join(" ", Split(title.str))))

\* A resolver that skips the geometry rule.
HashKey_FeatureOnly(feature) == "feature::" \o Sha1HexDigest(JsonFeature(feature))

\* The last two rules, shared by the three copies: the geometry hash, then the
\* hash of the whole feature.
HashKey(feature) ==
    IF ~IsNone(feature.geometry)
    THEN "geometry::" \o Sha1HexDigest(JsonGeometry(feature.geometry))
    ELSE "feature::" \o Sha1HexDigest(JsonFeature(feature))

\* IPCAreaDownloader.feature_key, scripts/download_ipc_areas.py
feature_key(feature) ==
    LET props == feature.properties
        area_id == props.id
    IN  IF ~IsNone(area_id)
        THEN LET iso3 == Lower(Strip(OrEmpty(props.iso3)))
                 id_value == Strip(PyStr(area_id))
             IN  "id::" \o iso3 \o "::" \o id_value
        ELSE LET title_key == normalize_title(props.title)
             IN  IF title_key # "" THEN "title::" \o title_key
                 ELSE HashKey(feature)

\* feature_key, scripts/combine_ipc_areas.py
combine_feature_key(feature) ==
    LET props == feature.properties
        iso3 == Lower(Strip(OrEmpty(props.iso3)))
        title == normalize_title(props.title)
    IN  IF iso3 # "" /\ title # "" THEN iso3 \o "::" \o title
        ELSE HashKey(feature)

\* IPCAreaDownloader.feature_key, download_ipc_areas.py (the earlier copy)
legacy_feature_key(feature) ==
    LET title_key == normalize_title(feature.properties.title)
    IN  IF title_key # "" THEN "title::" \o title_key ELSE HashKey(feature)

---------------------------------------------------------------------------
(* The consolidation engine: IPCAreaDownloader.merge_features *)

\* An empty dict.
EmptyDict == [k \in {} |-> None]

\* dict[key] = value
Put(dict, key, value) == [k \in DOMAIN dict \cup {key} |-> IF k = key THEN value ELSE dict[k]]

ZeroStats == [added |-> 0, updated |-> 0, skipped |-> 0]

\* (year or 0): a missing year, like the year 0, counts as 0.
YearOrZero(year) == IF IsNone(year) THEN 0 ELSE year.int

\* Candidate with the batch's year always, the feature's own year ignored.
Candidate_BatchYear(feature, priority, source_year, source_label) ==
    [feature      |-> feature,
     priority     |-> priority,
     source_year  |-> source_year,
     source_label |-> source_label,
     title        |-> feature.properties.title]

\* The candidate built for an incoming feature (a deep copy of the feature, the
\* batch priority, the feature's own year or else the batch's year).
Candidate(feature, priority, source_year, source_label) ==
    [feature      |-> feature,
     priority     |-> priority,
     source_year  |-> IF ~IsNone(feature.properties.year)
                      THEN feature.properties.year
                      ELSE source_year,
     source_label |-> source_label,
     title        |-> feature.properties.title]

\* Replace with the years compared by > : a tie keeps the stored candidate.
Replace_StrictYear(candidate, existing) ==
    IF candidate.priority > existing.priority THEN TRUE
    ELSE IF candidate.priority = existing.priority
         THEN YearOrZero(candidate.source_year) > YearOrZero(existing.source_year)
         ELSE FALSE

\* Replace with the priorities left out: the later year wins.
Replace_YearOnly(candidate, existing) ==
    YearOrZero(candidate.source_year) >= YearOrZero(existing.source_year)

\* Replace with the priorities compared by >= and the years left out.
Replace_LastWins(candidate, existing) ==
    candidate.priority >= existing.priority

\* The replace flag of merge_features for a candidate whose key is taken by existing.
Replace(candidate, existing) ==
    IF candidate.priority > existing.priority THEN TRUE
    ELSE IF candidate.priority = existing.priority
         THEN YearOrZero(candidate.source_year) >= YearOrZero(existing.source_year)
         ELSE FALSE

\* MergeOne with the stored entry deleted, and not set again, on a replacement.
MergeOne_DropOnReplace(agg, st, feature, priority, source_year, source_label) ==
    LET key == feature_key(feature)
        candidate == Candidate(feature, priority, source_year, source_label)
    IN  IF key \notin DOMAIN agg
        THEN [aggregate |-> Put(agg, key, candidate),
              stats     |-> [st EXCEPT !.added = @ + 1]]
        ELSE IF Replace(candidate, agg[key])
             THEN [aggregate |-> [k \in DOMAIN agg \ {key} |-> agg[k]],
                   stats     |-> [st EXCEPT !.updated = @ + 1]]
             ELSE [aggregate |-> agg,
                   stats     |-> [st EXCEPT !.skipped = @ + 1]]

\* One iteration of the loop of merge_features: the aggregate and the stats after
\* the feature has been processed.
MergeOne(agg, st, feature, priority, source_year, source_label) ==
    LET key == feature_key(feature)
        candidate == Candidate(feature, priority, source_year, source_label)
    IN  IF key \notin DOMAIN agg
        THEN [aggregate |-> Put(agg, key, candidate),
              stats     |-> [st EXCEPT !.added = @ + 1]]
        ELSE IF Replace(candidate, agg[key])
             THEN [aggregate |-> Put(agg, key, candidate),
                   stats     |-> [st EXCEPT !.updated = @ + 1]]
             ELSE [aggregate |-> agg,
                   stats     |-> [st EXCEPT !.skipped = @ + 1]]

RECURSIVE MergeLoop(_, _, _, _, _, _)
\* The whole loop of merge_features over features, from the aggregate agg and the
\* stats st.
MergeLoop(agg, st, features, priority, source_year, source_label) ==
    IF features = <<>> THEN [aggregate |-> agg, stats |-> st]
    ELSE LET r == MergeOne(agg, st, Head(features), priority, source_year, source_label)
         IN  MergeLoop(r.aggregate, r.stats, Tail(features),
                       priority, source_year, source_label)

\* merge_features(aggregate, features, priority=, source_year=, source_label=):
\* the aggregate it leaves and the stats it returns.
MergeFeatures(agg, features, priority, source_year, source_label) ==
    MergeLoop(agg, ZeroStats, features, priority, source_year, source_label)

RECURSIVE SortStrings_Descending(_)
\* SortStrings with the order reversed.
SortStrings_Descending(S) ==
    IF S = {} THEN <<>>
    ELSE LET greatest == CHOOSE k \in S : \A other \in S \ {k} : StrLess(other, k)
         IN  <<greatest>> \o SortStrings_Descending(S \ {greatest})

RECURSIVE SortStrings(_)
\* sorted(keys): the strings of a set in ascending order.
SortStrings(S) ==
    IF S = {} THEN <<>>
    ELSE LET least == CHOOSE k \in S : \A other \in S \ {k} : StrLess(k, other)
         IN  <<least>> \o SortStrings(S \ {least})

\* sorted(dict.items(), key=lambda item: item[0]), as the list of its values.
SortedValues(dict) ==
    LET keys == SortStrings(DOMAIN dict)
    IN  [i \in 1..Len(keys) |-> dict[keys[i]]]

---------------------------------------------------------------------------
(* Bounds and inputs *)

\* The most features handed to one aggregate, over all batches.
MaxFeatures == 3

\* The priorities process_country and build_global_dataset pass to merge_features.
LegacyPriority == -5

ExistingPriority == 0

DownloadPriority == 10

GlobalPriority == 0

Years == {2023, 2024}

Polygon == [type |-> "Polygon", coordinates |-> <<0, 1>>]

MultiPolygon == [type |-> "MultiPolygon", coordinates |-> <<2, 3>>]

Feature(id, iso3, title, year, geometry) ==
    [geometry   |-> geometry,
     properties |-> [id |-> id, iso3 |-> iso3, title |-> title, year |-> year]]

\* Three features of one logical area (the key id::ken::X1) that differ in title,
\* geometry and year, one keyed by its title and one keyed by its geometry.
Features ==
    { Feature(StrVal("X1"), StrVal("KEN"), StrVal("North"), IntVal(2023), Polygon),
      Feature(StrVal(" X1"), StrVal("ken "), StrVal("South"), IntVal(2024), MultiPolygon),
      Feature(StrVal("X1"), StrVal("KEN"), StrVal("North"), None, MultiPolygon),
      Feature(None, StrVal("KEN"), StrVal("North  East"), IntVal(2023), Polygon),
      Feature(None, None, None, None, Polygon) }

\* The features of the runs that record the order of the calls: two of one key,
\* one of them without a year of its own, and one of another key.
OrderFeatures ==
    { Feature(StrVal("X1"), StrVal("KEN"), StrVal("North"), IntVal(2024), Polygon),
      Feature(StrVal("X1"), StrVal("KEN"), StrVal("North"), None, MultiPolygon),
      Feature(None, StrVal("KEN"), StrVal("North"), IntVal(2023), Polygon) }

\* The non-empty lists of at most n features of a pool.
Batches(pool, n) == UNION { [1..len -> pool] : len \in 1..n }

Source(priority, source_year, source_label) ==
    [priority |-> priority, source_year |-> source_year, source_label |-> source_label]

\* The (priority, source_year, source_label) of the calls of merge_features: in
\* process_country the combined file of an earlier run, an existing per-year file
\* and the downloads.
Sources ==
    { Source(LegacyPriority, None, "legacy_combined"),
      Source(ExistingPriority, IntVal(2023), "existing:" \o IntToStr(2023)) }
    \cup { Source(DownloadPriority, IntVal(y), "download:" \o IntToStr(y)) : y \in Years }

\* The sources of the runs that record the order of the calls: a country's combined
\* file in build_global_dataset, an existing per-year file and a download.
OrderSources ==
    { Source(GlobalPriority, None, "KEN_combined_areas.topojson"),
      Source(ExistingPriority, IntVal(2023), "existing:2023"),
      Source(DownloadPriority, IntVal(2024), "download:2024") }

\* The features the identity resolver is probed with.
KeyFeatures ==
    { Feature(id, iso3, title, None, geometry) :
        id \in {None, StrVal("A1"), StrVal(" A1 "), StrVal("7"), IntVal(7)},
        iso3 \in {None, StrVal("KEN"), StrVal(" ken "), StrVal("UGA")},
        title \in {None, StrVal(""), StrVal(" North  East"), StrVal("north east")},
        geometry \in {None, Polygon, MultiPolygon} }

---------------------------------------------------------------------------
(* The programs *)

NoCall == [features |-> <<>>, source |-> Source(0, None, ""), idx |-> 1]

NoProbe == [a |-> None, b |-> None, resolved |-> FALSE]

\* simplify_topojson has not been called.
NoSimplify == [phase |-> "none"]

\* No merge_features call is in progress.
Returned == call.idx > Len(call.features)

Init ==
    /\ aggregate = EmptyDict
    /\ stats = ZeroStats
    /\ call = NoCall
    /\ nfeatures = 0
    /\ submitted = {}
    /\ history = <<>>
    /\ final_features = <<>>
    /\ mode = "start"
    /\ probe = NoProbe
    /\ simplify = NoSimplify

\* A caller enters merge_features with a batch: the stats start at zero.  With
\* record, the call is appended to the history.
merge_features(features, source, record) ==
    /\ mode \in {"start", "merge"}
    /\ Returned
    /\ call' = [features |-> features, source |-> source, idx |-> 1]
    /\ stats' = ZeroStats
    /\ nfeatures' = nfeatures + Len(features)
    /\ history' = IF record
                  THEN Append(history, [features |-> features, source |-> source])
                  ELSE history
    /\ mode' = "merge"
    /\ UNCHANGED <<aggregate, submitted, final_features, probe, simplify>>

\* One iteration of the loop of merge_features.
merge_features_loop ==
    /\ mode = "merge"
    /\ ~Returned
    /\ LET feature == call.features[call.idx]
           src == call.source
           r == MergeOne(aggregate, stats, feature,
                         src.priority, src.source_year, src.source_label)
       IN  /\ aggregate' = r.aggregate
           /\ stats' = r.stats
           /\ submitted' = submitted \cup
                  {[key |-> feature_key(feature),
                    candidate |-> Candidate(feature, src.priority, src.source_year,
                                            src.source_label)]}
    /\ call' = [call EXCEPT !.idx = @ + 1]
    /\ UNCHANGED <<nfeatures, history, final_features, mode, probe, simplify>>

\* process_country / build_global_dataset read the aggregate out, sorted by key,
\* unless it is empty.
read_out ==
    /\ mode = "merge"
    /\ Returned
    /\ DOMAIN aggregate # {}
    /\ final_features' =
           LET sorted_entries == SortedValues(aggregate)
           IN  [i \in 1..Len(sorted_entries) |-> sorted_entries[i].feature]
    /\ mode' = "readout"
    /\ UNCHANGED <<aggregate, stats, call, nfeatures, submitted, history, probe, simplify>>

RECURSIVE KeepFirst(_, _)
\* The inner loop of collect_all_features: the first feature of each key is kept.
KeepFirst(agg, features) ==
    IF features = <<>> THEN agg
    ELSE LET key == combine_feature_key(Head(features))
         IN  KeepFirst(IF key \notin DOMAIN agg THEN Put(agg, key, Head(features)) ELSE agg,
                       Tail(features))

\* One iteration of the loop of collect_all_features over the files: the file is
\* read (readable: load_features_from_topojson returned features, else it raised).
collect_file(readable, features) ==
    /\ mode \in {"start", "combine"}
    /\ nfeatures' = IF readable THEN nfeatures + Len(features) ELSE nfeatures
    /\ aggregate' = IF readable THEN KeepFirst(aggregate, features) ELSE aggregate
    /\ mode' = "combine"
    /\ UNCHANGED <<stats, call, submitted, history, final_features, probe, simplify>>

\* collect_all_features returns the kept features sorted by key.
collect_return ==
    /\ mode = "combine"
    /\ final_features' = SortedValues(aggregate)
    /\ mode' = "combined"
    /\ UNCHANGED <<aggregate, stats, call, nfeatures, submitted, history, probe, simplify>>

Next ==
    \/ \E features \in Batches(Features, MaxFeatures - nfeatures), source \in Sources :
           merge_features(features, source, FALSE)
    \/ merge_features_loop
    \/ read_out
    \/ \E readable \in BOOLEAN, features \in Batches(Features, MaxFeatures - nfeatures) :
           collect_file(readable, features)
    \/ collect_return

Spec == Init /\ [][Next]_vars

\* The runs that record the order of the merge_features calls.
NextOrder ==
    \/ \E features \in Batches(OrderFeatures, MaxFeatures - nfeatures),
          source \in OrderSources :
           merge_features(features, source, TRUE)
    \/ merge_features_loop

SpecOrder == Init /\ [][NextOrder]_vars

\* The identity resolver applied to two features, by each of its three copies.
InitKeys ==
    /\ aggregate = EmptyDict
    /\ stats = ZeroStats
    /\ call = NoCall
    /\ nfeatures = 0
    /\ submitted = {}
    /\ history = <<>>
    /\ final_features = <<>>
    /\ mode = "keys"
    /\ probe \in { [a |-> f, b |-> g, resolved |-> FALSE] : f, g \in KeyFeatures }
    /\ simplify = NoSimplify

resolve_keys ==
    /\ mode = "keys"
    /\ ~probe.resolved
    /\ probe' = [a |-> probe.a, b |-> probe.b, resolved |-> TRUE,
                 download |-> <<feature_key(probe.a), feature_key(probe.b)>>,
                 combine  |-> <<combine_feature_key(probe.a), combine_feature_key(probe.b)>>,
                 legacy   |-> <<legacy_feature_key(probe.a), legacy_feature_key(probe.b)>>]
    /\ UNCHANGED <<aggregate, stats, call, nfeatures, submitted, history, final_features, mode,
                   simplify>>

NextKeys == resolve_keys

SpecKeys == InitKeys /\ [][NextKeys]_vars

---------------------------------------------------------------------------
(* What the claims speak of *)

\* The feature the loop of merge_features is about to process, its key and the
\* candidate built for it.
Incoming == call.features[call.idx]

IncomingKey == feature_key(Incoming)

IncomingCandidate ==
    Candidate(Incoming, call.source.priority, call.source.source_year,
              call.source.source_label)

\* The loop of merge_features is about to process a feature.
InLoop == mode = "merge" /\ ~Returned

\* The aggregate holds candidates (in the combiner it holds features).
HoldsCandidates == mode \in {"start", "merge", "readout"}

\* The aggregate a caller builds by calling merge_features for each of the calls in
\* turn (the loops of process_country and build_global_dataset): the fold of
\* merge_features over the sequence, from the aggregate agg.
RECURSIVE MergeCalls(_, _)
MergeCalls(agg, calls) ==
    IF calls = <<>>
    THEN agg
    ELSE MergeCalls(MergeFeatures(agg, Head(calls).features, Head(calls).source.priority,
                                  Head(calls).source.source_year,
                                  Head(calls).source.source_label).aggregate,
                    Tail(calls))

\* A candidate's source year with a missing year counted as 0.
RankYear(c) == IF c.source_year = None THEN 0 ELSE c.source_year.int

\* The candidates submitted so far for a key.
SubmittedFor(key) == { e.candidate : e \in { x \in submitted : x.key = key } }

\* key -> surviving feature.
Survivors(agg) == [k \in DOMAIN agg |-> agg[k].feature]

\* key -> (priority, source year with missing = 0) of the surviving candidate.
Ranks(agg) == [k \in DOMAIN agg |-> <<agg[k].priority, RankYear(agg[k])>>]

---------------------------------------------------------------------------
(* C1 *)

\* C1: when the key of the incoming feature is already in the aggregate, the stored
\* candidate is replaced by the incoming one if and only if the incoming priority is
\* greater than the stored one, or they are equal and the incoming source year is >=
\* the stored one (a missing year counted as 0); a replacement increments updated by
\* one, and otherwise the aggregate is left exactly as it was and skipped is
\* incremented by one.
C1_ReplaceRule ==
    [][ (InLoop /\ IncomingKey \in DOMAIN aggregate) =>
          LET existing == aggregate[IncomingKey]
              incoming == IncomingCandidate
              wins == \/ incoming.priority > existing.priority
                      \/ /\ incoming.priority = existing.priority
                         /\ RankYear(incoming) >= RankYear(existing)
          IN  IF wins
              THEN /\ aggregate' = [aggregate EXCEPT ![IncomingKey] = incoming]
                   /\ stats' = [stats EXCEPT !.updated = @ + 1]
              ELSE /\ aggregate' = aggregate
                   /\ stats' = [stats EXCEPT !.skipped = @ + 1] ]_vars

\* One call has replaced a stored candidate and has skipped an incoming one.
C1_Witness ==
    /\ mode = "merge"
    /\ stats.updated >= 1
    /\ stats.skipped >= 1

---------------------------------------------------------------------------
(* C2 *)

\* C2: at every point of every sequence of merge_features calls, the candidate
\* stored for a key is one of the candidates submitted for that key and no candidate
\* submitted for the key has a higher priority, whatever the years; so once a
\* downloaded feature (priority 10) has been submitted for a key, the stored
\* candidate of that key is a downloaded one.
C2_PriorityDominance ==
    HoldsCandidates =>
        \A k \in DOMAIN aggregate :
            /\ aggregate[k] \in SubmittedFor(k)
            /\ \A c \in SubmittedFor(k) : c.priority <= aggregate[k].priority
            /\ (\E c \in SubmittedFor(k) : c.priority = DownloadPriority)
                   => aggregate[k].priority = DownloadPriority

\* A download of year 2023 is stored for a key for which an existing copy of year
\* 2024 was submitted too.
C2_Witness ==
    /\ HoldsCandidates
    /\ \E k \in DOMAIN aggregate :
           /\ aggregate[k].priority = DownloadPriority
           /\ aggregate[k].source_year = IntVal(2023)
           /\ \E c \in SubmittedFor(k) :
                  /\ c.priority = ExistingPriority
                  /\ c.source_year = IntVal(2024)

---------------------------------------------------------------------------
(* C3 *)

\* C3: at every point of every sequence of merge_features calls, no candidate
\* submitted for a key with the priority of the stored candidate has a greater source
\* year (missing = 0) than the stored candidate.
C3_YearTieBreak ==
    HoldsCandidates =>
        \A k \in DOMAIN aggregate :
            \A c \in SubmittedFor(k) :
                c.priority = aggregate[k].priority
                    => RankYear(c) <= RankYear(aggregate[k])

\* Year 2024 is stored for a key, year 2023 was submitted for it with the same
\* priority, and the call that has just returned skipped a feature: the older year
\* came last.
C3_Witness ==
    /\ mode = "merge"
    /\ Returned
    /\ Len(call.features) = 1
    /\ stats.skipped = 1
    /\ LET k == feature_key(call.features[1])
       IN  /\ RankYear(aggregate[k]) = 2024
           /\ aggregate[k].priority = call.source.priority
           /\ RankYear(Candidate(call.features[1], call.source.priority,
                                 call.source.source_year, call.source.source_label)) = 2023

---------------------------------------------------------------------------
(* C4 *)

\* C4: at every point of every sequence of merge_features calls, the keys of the
\* aggregate are exactly the keys of the features submitted so far (so a key once
\* inserted stays), and each key holds one candidate, one of those submitted for
\* that key.
C4_KeysInv ==
    HoldsCandidates =>
        /\ DOMAIN aggregate = { e.key : e \in submitted }
        /\ \A k \in DOMAIN aggregate : aggregate[k] \in SubmittedFor(k)

\* Three batches carried the same key (priority 0 / year 2023, priority 10 / year
\* 2024, priority 10 / year 2023) and the aggregate holds one entry, the priority 10
\* / year 2024 one.
C4_Witness ==
    /\ mode = "merge"
    /\ Returned
    /\ Cardinality(submitted) = 3
    /\ Cardinality(DOMAIN aggregate) = 1
    /\ \E k \in DOMAIN aggregate :
           /\ { <<c.priority, RankYear(c)>> : c \in SubmittedFor(k) }
                  = { <<0, 2023>>, <<10, 2024>>, <<10, 2023>> }
           /\ Ranks(aggregate)[k] = <<10, 2024>>

---------------------------------------------------------------------------
(* C5 *)

\* C5: whenever merge_features has returned, applying it once more with the same
\* batch, priority, source_year and source_label leaves the key -> surviving feature
\* mapping as it is.
C5_MergeIdempotent ==
    (mode = "merge" /\ Returned) =>
        Survivors(MergeFeatures(aggregate, call.features, call.source.priority,
                                call.source.source_year,
                                call.source.source_label).aggregate)
            = Survivors(aggregate)

\* The call that has just returned had a batch with two different features of one
\* key, on an aggregate that held the key already.
C5_Witness ==
    /\ mode = "merge"
    /\ Returned
    /\ Len(call.features) = 2
    /\ call.features[1] # call.features[2]
    /\ feature_key(call.features[1]) = feature_key(call.features[2])
    /\ stats.added = 0
    /\ stats.updated >= 1

---------------------------------------------------------------------------
(* C7 *)

\* C7: the feature list read out of the aggregate by process_country /
\* build_global_dataset, and the one returned by collect_all_features, holds one
\* feature per key of the aggregate, in strictly ascending order of the keys.
C7_SortedReadOut ==
    /\ mode = "readout" =>
           /\ Len(final_features) = Cardinality(DOMAIN aggregate)
           /\ \A i \in 1..Len(final_features) :
                  /\ feature_key(final_features[i]) \in DOMAIN aggregate
                  /\ aggregate[feature_key(final_features[i])].feature = final_features[i]
           /\ \A i, j \in 1..Len(final_features) :
                  i < j => StrLess(feature_key(final_features[i]),
                                   feature_key(final_features[j]))
    /\ mode = "combined" =>
           /\ Len(final_features) = Cardinality(DOMAIN aggregate)
           /\ \A i \in 1..Len(final_features) :
                  /\ combine_feature_key(final_features[i]) \in DOMAIN aggregate
                  /\ aggregate[combine_feature_key(final_features[i])] = final_features[i]
           /\ \A i, j \in 1..Len(final_features) :
                  i < j => StrLess(combine_feature_key(final_features[i]),
                                   combine_feature_key(final_features[j]))

\* Three features have been read out: a geometry key, an id key and a title key.
C7_Witness ==
    /\ mode = "readout"
    /\ Len(final_features) = 3

---------------------------------------------------------------------------
(* C8 *)

\* C8: when the key of the incoming feature is not in the aggregate, the loop stores
\* under that key a candidate with the feature, the batch priority and, as
\* source_year, the feature's own year when that is not null and the batch's
\* source_year otherwise; it increments added by one and changes nothing else.
C8_InsertAbsent ==
    [][ (InLoop /\ IncomingKey \notin DOMAIN aggregate) =>
          /\ DOMAIN aggregate' = DOMAIN aggregate \cup {IncomingKey}
          /\ \A k \in DOMAIN aggregate : aggregate'[k] = aggregate[k]
          /\ aggregate'[IncomingKey].feature = Incoming
          /\ aggregate'[IncomingKey].priority = call.source.priority
          /\ aggregate'[IncomingKey].source_year =
                 (IF Incoming.properties.year # None
                  THEN Incoming.properties.year
                  ELSE call.source.source_year)
          /\ stats' = [stats EXCEPT !.added = @ + 1] ]_vars

\* One download of year 2024 has added a feature without a year, stored with the
\* year 2024, and a feature of year 2023, stored with the year 2023.
C8_Witness ==
    /\ mode = "merge"
    /\ stats.added = 2
    /\ call.source.source_year = IntVal(2024)
    /\ \E k1, k2 \in DOMAIN aggregate :
           /\ aggregate[k1].feature.properties.year = None
           /\ aggregate[k1].source_year = IntVal(2024)
           /\ aggregate[k2].feature.properties.year = IntVal(2023)
           /\ aggregate[k2].source_year = IntVal(2023)

---------------------------------------------------------------------------
(* C9 *)

\* C9: when the incoming feature has the key, the priority and the source year
\* (missing = 0) of the stored candidate, the loop stores the incoming one.
C9_LaterWinsTie ==
    [][ ( /\ InLoop
          /\ IncomingKey \in DOMAIN aggregate
          /\ IncomingCandidate.priority = aggregate[IncomingKey].priority
          /\ RankYear(IncomingCandidate) = RankYear(aggregate[IncomingKey]) )
        => aggregate'[IncomingKey] = IncomingCandidate ]_vars

\* Within one batch, the second feature tied with the first (same key, priority and
\* year, another geometry) and is the one stored.
C9_Witness ==
    /\ mode = "merge"
    /\ Returned
    /\ Len(call.features) = 2
    /\ stats.added = 1
    /\ stats.updated = 1
    /\ call.features[1] # call.features[2]
    /\ LET c1 == Candidate(call.features[1], call.source.priority,
                           call.source.source_year, call.source.source_label)
           c2 == Candidate(call.features[2], call.source.priority,
                           call.source.source_year, call.source.source_label)
       IN  /\ RankYear(c1) = RankYear(c2)
           /\ aggregate[feature_key(call.features[2])] = c2

---------------------------------------------------------------------------
(* C6 *)

\* The recorded calls, taken in the order p (a permutation of their positions).
Reordered(p) == [i \in 1..Len(history) |-> history[p[i]]]

\* The candidates submitted for the key that have the rank of the stored one.
TopRanked(key) ==
    { c \in SubmittedFor(key) :
          <<c.priority, RankYear(c)>> = <<aggregate[key].priority, RankYear(aggregate[key])>> }

\* C6 as stated: once every recorded merge_features call has returned, calling
\* merge_features on the same batches in any other order gives the same
\* key -> surviving feature mapping.
C6_SameSurvivorsAnyOrder ==
    (mode = "merge" /\ Returned) =>
        \A p \in Permutations(1..Len(history)) :
            Survivors(MergeCalls(EmptyDict, Reordered(p))) = Survivors(aggregate)

\* C6: once every recorded merge_features call has returned, calling merge_features
\* on the same batches in any other order gives the same keys and, for each key, the
\* same priority and source year (missing = 0) of the survivor; the surviving feature
\* is the same too for every key for which only one feature was submitted with that
\* highest priority and year.
C6_SameRanksAnyOrder ==
    (mode = "merge" /\ Returned) =>
        \A p \in Permutations(1..Len(history)) :
            LET other == MergeCalls(EmptyDict, Reordered(p))
            IN  /\ Ranks(other) = Ranks(aggregate)
                /\ \A k \in DOMAIN aggregate :
                       Cardinality({ c.feature : c \in TopRanked(k) }) = 1
                           => other[k].feature = aggregate[k].feature

\* Three calls have returned; one key got candidates of two priorities from them and
\* one of these was skipped, so the statistics depended on the order.
C6_Witness ==
    /\ mode = "merge"
    /\ Returned
    /\ Len(history) = 3
    /\ stats.skipped = 1
    /\ \E k \in DOMAIN aggregate :
           \E c, d \in SubmittedFor(k) : c.priority < d.priority

---------------------------------------------------------------------------
(* C10 *)

\* The key the identifier rule gives a feature that carries an id.
IdRuleKey(feature) ==
    "id::" \o Lower(Strip(OrEmpty(feature.properties.iso3)))
           \o "::" \o Strip(PyStr(feature.properties.id))

\* The two probed features carry an id and agree on iso3 and id.
SameIso3AndId ==
    /\ ~IsNone(probe.a.properties.id)
    /\ probe.a.properties.id = probe.b.properties.id
    /\ probe.a.properties.iso3 = probe.b.properties.iso3

\* C10: for a feature that carries a non-null id, the key is
\* id::<iso3 lowercased and trimmed>::<id as a trimmed string> in the downloader, in
\* the combiner and in the earlier downloader, and two features with the same iso3
\* and id get the same key in each of them, whatever their titles and geometries.
C10_IdRuleEverywhere ==
    probe.resolved =>
        /\ ~IsNone(probe.a.properties.id) =>
               /\ probe.download[1] = IdRuleKey(probe.a)
               /\ probe.combine[1] = IdRuleKey(probe.a)
               /\ probe.legacy[1] = IdRuleKey(probe.a)
        /\ SameIso3AndId =>
               /\ probe.download[1] = probe.download[2]
               /\ probe.combine[1] = probe.combine[2]
               /\ probe.legacy[1] = probe.legacy[2]

\* The part of C10 that is about the downloader of scripts/ alone.
C10_IdRuleDownloader ==
    probe.resolved =>
        /\ ~IsNone(probe.a.properties.id) => probe.download[1] = IdRuleKey(probe.a)
        /\ SameIso3AndId => probe.download[1] = probe.download[2]

---------------------------------------------------------------------------
(* C11 *)

\* The probed feature a has no id and a title that is not empty once normalized.
TitleKeyed(feature) ==
    /\ IsNone(feature.properties.id)
    /\ normalize_title(feature.properties.title) # ""

\* The key the title rule of the Identity Resolver gives such a feature.
TitleRuleKey(feature) ==
    LET iso3 == Lower(Strip(OrEmpty(feature.properties.iso3)))
        title == normalize_title(feature.properties.title)
    IN  IF iso3 # "" THEN iso3 \o "::" \o title ELSE "title::" \o title

\* C11: for a feature with no id and a non-empty title, the key is
\* <iso3>::<normalized title> when the feature has an ISO3 code and
\* title::<normalized title> when it has none, in the downloader and in the combiner.
C11_TitleRule ==
    (probe.resolved /\ TitleKeyed(probe.a)) =>
        /\ probe.download[1] = TitleRuleKey(probe.a)
        /\ probe.combine[1] = TitleRuleKey(probe.a)

\* The part of C11 that holds: in the downloader the key of such a feature is
\* title::<normalized title> whatever its ISO3 code, in the combiner it is
\* <iso3>::<normalized title> when there is an ISO3 code, and titles that differ only
\* in case or whitespace give the same key (the rest being equal) in the downloader
\* and, when there is an ISO3 code, in the combiner.
C11_TitleKeysAsCoded ==
    (probe.resolved /\ TitleKeyed(probe.a)) =>
        /\ probe.download[1] = "title::" \o normalize_title(probe.a.properties.title)
        /\ ~IsNone(probe.a.properties.iso3) => probe.combine[1] = TitleRuleKey(probe.a)
        /\ ( /\ TitleKeyed(probe.b)
             /\ normalize_title(probe.a.properties.title)
                    = normalize_title(probe.b.properties.title)
             /\ probe.a.properties.iso3 = probe.b.properties.iso3
             /\ probe.a.geometry = probe.b.geometry )
           => /\ probe.download[1] = probe.download[2]
              /\ ~IsNone(probe.a.properties.iso3) => probe.combine[1] = probe.combine[2]

---------------------------------------------------------------------------
(* C12 *)

\* The feature has neither an id nor a title that is non-empty once normalized.
HashKeyed(feature) ==
    /\ IsNone(feature.properties.id)
    /\ normalize_title(feature.properties.title) = ""

\* Two such features serialize identically in what the resolver hashes: the
\* geometries when both have one, the whole features when neither has one.
SameSerialization(f, g) ==
    \/ /\ ~IsNone(f.geometry)
       /\ ~IsNone(g.geometry)
       /\ JsonGeometry(f.geometry) = JsonGeometry(g.geometry)
    \/ /\ IsNone(f.geometry)
       /\ IsNone(g.geometry)
       /\ JsonFeature(f) = JsonFeature(g)

\* C12: feature_key gives every feature a key; in the downloader an id is resolved
\* first and a non-empty title second; in the downloader and in the combiner a
\* feature with neither gets geometry::<hash of its geometry> when it has a geometry
\* and feature::<hash of the whole feature> otherwise, and two such features share a
\* key exactly when their geometries (resp. whole features) serialize identically.
C12_HashRules ==
    probe.resolved =>
        /\ ~IsNone(probe.a.properties.id) => SubSeq(probe.download[1], 1, 4) = "id::"
        /\ TitleKeyed(probe.a) => SubSeq(probe.download[1], 1, 7) = "title::"
        /\ HashKeyed(probe.a) =>
               LET want == IF ~IsNone(probe.a.geometry)
                           THEN "geometry::" \o Sha1HexDigest(JsonGeometry(probe.a.geometry))
                           ELSE "feature::" \o Sha1HexDigest(JsonFeature(probe.a))
               IN  /\ probe.download[1] = want
                   /\ probe.combine[1] = want
        /\ (HashKeyed(probe.a) /\ HashKeyed(probe.b)) =>
               /\ (probe.download[1] = probe.download[2])
                      <=> SameSerialization(probe.a, probe.b)
               /\ (probe.combine[1] = probe.combine[2])
                      <=> SameSerialization(probe.a, probe.b)

\* Two different features without id and title, with the same geometry, have been
\* given one key.
C12_Witness ==
    /\ probe.resolved
    /\ HashKeyed(probe.a)
    /\ HashKeyed(probe.b)
    /\ probe.a # probe.b
    /\ probe.a.geometry = MultiPolygon
    /\ probe.b.geometry = MultiPolygon
    /\ probe.download[1] = probe.download[2]
    /\ probe.combine[1] = probe.combine[2]

---------------------------------------------------------------------------
(* The simplification pipeline: numbers, lists and rounding *)

\* A Python float, held in hundredths (FloatVal(14) is 0.14), and a Python list.
FloatVal(k) == [float |-> k]

ListVal(xs) == [list |-> xs]

IsFloat(v) == "float" \in DOMAIN v

IsList(v) == "list" \in DOMAIN v

IsDict(v) == "type" \in DOMAIN v

RECURSIVE Unit(_)
\* The hundredths in one unit of the last of digits decimal places; with negative
\* digits round() rounds to tens, hundreds and so on.
Unit(digits) == IF digits >= 2 THEN 1 ELSE 10 * Unit(digits + 1)

\* round(value, digits) on a float: the nearest multiple of the unit, a tie going
\* to the even multiple.
RoundFloat(k, digits) ==
    LET u == Unit(digits)
        q == k \div u
        r == k % u
    IN  IF 2 * r < u THEN q * u
        ELSE IF 2 * r > u THEN (q + 1) * u
        ELSE IF q % 2 = 0 THEN q * u ELSE (q + 1) * u

RECURSIVE round_nested(_, _)
round_nested(value, digits) ==
    IF IsList(value)
    THEN ListVal([i \in 1..Len(value.list) |-> round_nested(value.list[i], digits)])
    ELSE IF IsFloat(value)
    THEN FloatVal(RoundFloat(value.float, digits))
    ELSE value

---------------------------------------------------------------------------
(* The simplification pipeline: shapely and simplify_feature *)

\* A position [x, y] as a pair of hundredths, and back.
PointOf(p) == <<p.list[1].float, p.list[2].float>>

PointVal(xy) == ListVal(<<FloatVal(xy[1]), FloatVal(xy[2])>>)

\* The squared distance of p from the segment a-b, times the squared length of the
\* segment (times 1 when a = b), so that it stays an integer.
SegmentDistance(p, a, b) ==
    LET dx == b[1] - a[1]
        dy == b[2] - a[2]
        len == dx * dx + dy * dy
        t == (p[1] - a[1]) * dx + (p[2] - a[2]) * dy
        pa == (p[1] - a[1]) * (p[1] - a[1]) + (p[2] - a[2]) * (p[2] - a[2])
        pb == (p[1] - b[1]) * (p[1] - b[1]) + (p[2] - b[2]) * (p[2] - b[2])
        cross == (p[1] - a[1]) * dy - (p[2] - a[2]) * dx
    IN  IF len = 0 THEN [num |-> pa, den |-> 1]
        ELSE IF t <= 0 THEN [num |-> pa * len, den |-> len]
        ELSE IF t >= len THEN [num |-> pb * len, den |-> len]
        ELSE [num |-> cross * cross, den |-> len]

\* Douglas-Peucker on a line of positions: the interior position farthest from the
\* chord is kept, and the line split there, when it is farther than the tolerance;
\* otherwise only the two ends are kept.
RECURSIVE DouglasPeucker(_, _)
DouglasPeucker(points, tolerance) ==
    LET n == Len(points)
        d(i) == SegmentDistance(points[i], points[1], points[n])
        far == CHOOSE i \in 2..(n - 1) :
                   \A j \in 2..(n - 1) :
                       \/ d(j).num < d(i).num
                       \/ (d(j).num = d(i).num /\ i <= j)
    IN  IF n <= 2 THEN points
        ELSE IF d(far).num > tolerance * tolerance * d(far).den
        THEN DouglasPeucker(SubSeq(points, 1, far), tolerance)
                 \o Tail(DouglasPeucker(SubSeq(points, far, n), tolerance))
        ELSE <<points[1], points[n]>>

\* shape(geometry).simplify(tolerance, preserve_topology=True) and the conversion
\* of its __geo_interface__ through JSON. What the library does with a geometry is
\* the caller's environment: it raises, returns an empty geometry, or returns the
\* polygon with every ring simplified. A geometry collection here is one without
\* members, which is empty.
ShapelySimplify(geometry, tolerance, outcome) ==
    IF outcome = "raises" \/ geometry.type \notin {"Polygon", "GeometryCollection"}
    THEN [raised |-> TRUE, is_empty |-> FALSE, geometry |-> None]
    ELSE IF geometry.type = "GeometryCollection"
    THEN [raised |-> FALSE, is_empty |-> TRUE,
          geometry |-> [type |-> "GeometryCollection", geometries |-> ListVal(<<>>)]]
    ELSE IF outcome = "empty" \/ geometry.coordinates.list = <<>>
    THEN [raised |-> FALSE, is_empty |-> TRUE,
          geometry |-> [type |-> "Polygon", coordinates |-> ListVal(<<>>)]]
    ELSE [raised |-> FALSE, is_empty |-> FALSE,
          geometry |->
              [type |-> "Polygon",
               coordinates |->
                   ListVal([r \in 1..Len(geometry.coordinates.list) |->
                       LET ring == geometry.coordinates.list[r].list
                           line == [i \in 1..Len(ring) |-> PointOf(ring[i])]
                           kept == DouglasPeucker(line, tolerance)
                       IN  ListVal([i \in 1..Len(kept) |-> PointVal(kept[i])])])]]

\* A simplify_geometry that hands on whatever the library returned.
simplify_geometry_KeepEmpty(geometry, tolerance, shape, outcome) ==
    IF tolerance <= 0 \/ ~shape
    THEN [geometry |-> geometry, calls |-> <<>>]
    ELSE LET simplified == ShapelySimplify(geometry, tolerance, outcome)
         IN  [geometry |-> IF simplified.raised THEN geometry ELSE simplified.geometry,
              calls |-> <<geometry>>]

\* simplify_geometry; shape tells whether shapely could be imported. The result
\* comes with the geometries that were handed to the library.
simplify_geometry(geometry, tolerance, shape, outcome) ==
    IF tolerance <= 0
    THEN [geometry |-> geometry, calls |-> <<>>]
    ELSE IF ~shape
    THEN [geometry |-> geometry, calls |-> <<>>]
    ELSE LET simplified == ShapelySimplify(geometry, tolerance, outcome)
         IN  [geometry |-> IF simplified.raised \/ simplified.is_empty
                           THEN geometry
                           ELSE simplified.geometry,
              calls |-> <<geometry>>]

\* The geometry with its coordinates, if it has any, rounded.
RoundCoordinates(geometry, digits) ==
    IF "coordinates" \in DOMAIN geometry
    THEN [geometry EXCEPT !.coordinates = round_nested(@, digits)]
    ELSE geometry

\* A simplify_feature that rounds before it simplifies.
simplify_feature_RoundFirst(feature, digits, tolerance, shape, outcome) ==
    IF ~IsDict(feature.geometry)
    THEN [feature |-> feature, calls |-> <<>>]
    ELSE LET rounded == RoundCoordinates(feature.geometry, digits)
             simplified == simplify_geometry(rounded, tolerance, shape, outcome)
         IN  [feature |-> [feature EXCEPT !.geometry = simplified.geometry],
              calls |-> simplified.calls]

\* A simplify_feature that loses the identifier.
simplify_feature_DropId(feature, digits, tolerance, shape, outcome) ==
    IF ~IsDict(feature.geometry)
    THEN [feature |-> [feature EXCEPT !.id = None], calls |-> <<>>]
    ELSE LET simplified == simplify_geometry(feature.geometry, tolerance, shape, outcome)
         IN  [feature |-> [feature EXCEPT !.id = None,
                                          !.geometry = RoundCoordinates(simplified.geometry, digits)],
              calls |-> simplified.calls]

\* simplify_feature: the copy of the feature with its geometry simplified (when
\* tolerance > 0) and then rounded, and the geometries handed to the library.
simplify_feature(feature, digits, tolerance, shape, outcome) ==
    LET geometry == feature.geometry
    IN  IF ~IsDict(geometry)
        THEN [feature |-> feature, calls |-> <<>>]
        ELSE LET simplified == IF tolerance > 0
                               THEN simplify_geometry(geometry, tolerance, shape, outcome)
                               ELSE [geometry |-> geometry, calls |-> <<>>]
             IN  [feature |-> [feature EXCEPT
                                   !.geometry = RoundCoordinates(simplified.geometry, digits)],
                  calls |-> simplified.calls]

\* simplify_features: simplify_feature on every feature, in order; outcomes[i] is
\* what the library does with the i-th feature.
simplify_features(features, precision, simplify_tolerance, shape, outcomes) ==
    [i \in 1..Len(features) |->
        simplify_feature(features[i], precision, simplify_tolerance, shape, outcomes[i]).feature]

---------------------------------------------------------------------------
(* The simplification pipeline: inputs and simplify_topojson *)

\* The most features in the artifact handed to simplify_topojson.
MaxAreas == 2

Ring(points) == ListVal([i \in 1..Len(points) |-> PointVal(points[i])])

\* A square of side 0.20 whose lower edge has a vertex 0.14 above its middle.
BumpPolygon ==
    [type |-> "Polygon",
     coordinates |-> ListVal(<<Ring(<<(<<0, 0>>), (<<10, 14>>), (<<20, 0>>), (<<20, 20>>),
                                      (<<0, 20>>), (<<0, 0>>)>>)>>)]

\* A triangle whose coordinates have two decimals.
Triangle ==
    [type |-> "Polygon",
     coordinates |-> ListVal(<<Ring(<<(<<3, 3>>), (<<97, 3>>), (<<52, 81>>), (<<3, 3>>)>>)>>)]

\* A geometry without a coordinates member.
EmptyCollection == [type |-> "GeometryCollection", geometries |-> ListVal(<<>>)]

Area(id, iso3, geometry) ==
    [type |-> "Feature", id |-> id,
     properties |-> [iso3 |-> iso3, title |-> StrVal("North")],
     geometry |-> geometry]

Areas ==
    { Area(StrVal("A1"), StrVal("KEN"), BumpPolygon),
      Area(StrVal("A2"), StrVal("KEN"), Triangle),
      Area(None, StrVal("UGA"), None),
      Area(StrVal("A1"), None, EmptyCollection) }

\* The artifacts: no features at all, or up to MaxAreas of them.
Artifacts == {<<>>} \cup Batches(Areas, MaxAreas)

\* precision, simplify_tolerance (in hundredths) and whether shapely is installed.
Settings ==
    { [precision |-> d, simplify_tolerance |-> t, shape |-> sh] :
        d \in {1, 2}, t \in {0, 12}, sh \in BOOLEAN }

Outcomes == {"simplified", "empty", "raises"}

\* Byte sizes of a written artifact.
Sizes == {1, 2, 3}

SourcePath == "data/ipc_global_areas.topojson"

OutputPath == "data/global_areas_optimized_plus.topojson"

\* A file of the given byte size that holds the features.
File(size, features) == [size |-> size, features |-> features]

\* simplify_topojson has been called: on a source that exists or not, with an
\* output path or without one (in place).
InitSimplify ==
    /\ aggregate = EmptyDict
    /\ stats = ZeroStats
    /\ call = NoCall
    /\ nfeatures = 0
    /\ submitted = {}
    /\ history = <<>>
    /\ final_features = <<>>
    /\ mode = "simplify"
    /\ probe = NoProbe
    /\ simplify \in
           { [phase |-> "called", source |-> SourcePath, output |-> output,
              settings |-> settings, files |-> files, original |-> files,
              features |-> <<>>, processed |-> <<>>, calls |-> <<>>, outcomes |-> <<>>,
              target |-> None, report |-> None, error |-> None] :
                 output \in {None, StrVal(OutputPath)},
                 settings \in Settings,
                 files \in { [path \in {} |-> File(1, <<>>)] }
                           \cup { [path \in {SourcePath} |-> File(size, features)] :
                                      size \in Sizes \ {1}, features \in Artifacts } }


\* The variables of the consolidation programs, which simplify_topojson leaves alone.
mergeVars == <<aggregate, stats, call, nfeatures, submitted, history, final_features, mode, probe>>

\* simplify_topojson up to the loaded features: ensure_source raises when the source
\* is missing, and no features in it is a ValueError.
simplify_topojson_load ==
    /\ mode = "simplify"
    /\ simplify.phase = "called"
    /\ simplify' =
           IF simplify.source \notin DOMAIN simplify.files
           THEN [simplify EXCEPT !.phase = "raised", !.error = StrVal("FileNotFoundError")]
           ELSE IF simplify.files[simplify.source].features = <<>>
           THEN [simplify EXCEPT !.phase = "raised", !.error = StrVal("ValueError")]
           ELSE [simplify EXCEPT !.phase = "loaded",
                                 !.features = simplify.files[simplify.source].features]
    /\ UNCHANGED mergeVars

\* One iteration of the list comprehension of simplify_features; outcome is what the
\* library does if it is called for this feature.
simplify_features_loop(outcome) ==
    /\ mode = "simplify"
    /\ simplify.phase = "loaded"
    /\ Len(simplify.processed) < Len(simplify.features)
    /\ LET feature == simplify.features[Len(simplify.processed) + 1]
           result == simplify_feature(feature, simplify.settings.precision,
                                      simplify.settings.simplify_tolerance,
                                      simplify.settings.shape, outcome)
       IN  simplify' =
               [simplify EXCEPT
                    !.processed = Append(@, result.feature),
                    !.calls = Append(@, result.calls),
                    !.outcomes = Append(@, IF result.calls = <<>> THEN "none" ELSE outcome)]
    /\ UNCHANGED mergeVars

\* build_topology and write_output: the processed features are written to the output
\* path, or over the source when there is none; the byte size of what is written is
\* up to the topology encoder.
write_output(size) ==
    /\ mode = "simplify"
    /\ simplify.phase = "loaded"
    /\ Len(simplify.processed) = Len(simplify.features)
    /\ LET target == IF IsNone(simplify.output) THEN simplify.source ELSE simplify.output.str
       IN  simplify' =
               [simplify EXCEPT
                    !.phase = "written",
                    !.target = StrVal(target),
                    !.files = [path \in DOMAIN simplify.files \cup {target} |->
                                  IF path = target
                                  THEN File(size, simplify.processed)
                                  ELSE simplify.files[path]]]
    /\ UNCHANGED mergeVars

\* size_ratio as the fraction new_size / original_size, 0.0 when original_size is 0.
SizeRatio(new_size, original_size) ==
    IF original_size # 0
    THEN [num |-> new_size, den |-> original_size]
    ELSE [num |-> 0, den |-> 1]

\* The rest of simplify_topojson: the two stat() calls and the report.
simplify_topojson_return ==
    /\ mode = "simplify"
    /\ simplify.phase = "written"
    /\ LET original_size == simplify.files[simplify.source].size
           new_size == simplify.files[simplify.target.str].size
       IN  simplify' =
               [simplify EXCEPT
                    !.phase = "returned",
                    !.report = [original_size |-> original_size,
                                new_size |-> new_size,
                                saved_bytes |-> original_size - new_size,
                                size_ratio |-> SizeRatio(new_size, original_size),
                                precision |-> simplify.settings.precision,
                                simplify_tolerance |-> simplify.settings.simplify_tolerance,
                                output_path |-> simplify.target.str]]
    /\ UNCHANGED mergeVars

NextSimplify ==
    \/ simplify_topojson_load
    \/ \E outcome \in Outcomes : simplify_features_loop(outcome)
    \/ \E size \in Sizes : write_output(size)
    \/ simplify_topojson_return

SpecSimplify == InitSimplify /\ [][NextSimplify]_vars

---------------------------------------------------------------------------
(* C13 *)

\* simplify_topojson has loaded the features and not raised.
Simplifying == simplify.phase \in {"loaded", "written", "returned"}

\* simplify_features has returned.
Simplified == simplify.phase \in {"written", "returned"}

\* The library was called for the i-th feature and raised or returned an empty
\* geometry.
FellBack(i) ==
    /\ simplify.calls[i] # <<>>
    /\ LET result == ShapelySimplify(simplify.features[i].geometry,
                                     simplify.settings.simplify_tolerance,
                                     simplify.outcomes[i])
       IN  result.raised \/ result.is_empty

\* C13 as stated: the output of simplify_features has the features of the input, in
\* the same order, and a feature whose simplification was empty or raised carries
\* the original geometry.
C13_FallbackIsOriginal ==
    Simplifying =>
        /\ Simplified => Len(simplify.processed) = Len(simplify.features)
        /\ \A i \in 1..Len(simplify.processed) :
               /\ simplify.processed[i].id = simplify.features[i].id
               /\ simplify.processed[i].properties = simplify.features[i].properties
               /\ FellBack(i) =>
                      simplify.processed[i].geometry = simplify.features[i].geometry

\* C13: the output of simplify_features has the features of the input, in the same
\* order, and a feature whose simplification was empty or raised carries the
\* original geometry with its coordinates rounded to the precision.
C13_NeverDrops ==
    Simplifying =>
        /\ Simplified => Len(simplify.processed) = Len(simplify.features)
        /\ \A i \in 1..Len(simplify.processed) :
               /\ simplify.processed[i].id = simplify.features[i].id
               /\ simplify.processed[i].properties = simplify.features[i].properties
               /\ FellBack(i) =>
                      simplify.processed[i].geometry =
                          RoundCoordinates(simplify.features[i].geometry,
                                           simplify.settings.precision)

\* Two features have been simplified with a tolerance; the library returned an empty
\* geometry for the first, a polygon, and raised for the second.
C13_Witness ==
    /\ Simplified
    /\ Len(simplify.processed) = 2
    /\ simplify.settings.simplify_tolerance > 0
    /\ simplify.features[1].geometry = BumpPolygon
    /\ simplify.outcomes = <<"empty", "raises">>
    /\ simplify.processed[1].geometry # simplify.features[1].geometry

---------------------------------------------------------------------------
(* C14 *)

\* The library simplified every geometry it was handed in this run.
LibraryWorked == \A i \in 1..Len(simplify.outcomes) : simplify.outcomes[i] \in {"simplified", "none"}

\* simplify_features applied to the output of this run, with the same settings and
\* a library that simplifies every geometry it is handed.
SecondPass ==
    simplify_features(simplify.processed, simplify.settings.precision,
                      simplify.settings.simplify_tolerance, simplify.settings.shape,
                      [i \in 1..Len(simplify.processed) |-> "simplified"])

\* C14: simplify_features applied to its own output with the same precision and
\* tolerance returns identical features.
C14_PipelineIdempotent ==
    (Simplified /\ LibraryWorked) => SecondPass = simplify.processed

\* The part of C14 that holds: without shape simplification (tolerance 0, or shapely
\* not installed) the second pass returns identical features, and rounding a rounded
\* coordinate array changes nothing.
C14_RoundingIdempotent ==
    Simplified =>
        /\ (simplify.settings.simplify_tolerance = 0 \/ ~simplify.settings.shape)
               => SecondPass = simplify.processed
        /\ \A i \in 1..Len(simplify.processed) :
               "coordinates" \in DOMAIN simplify.features[i].geometry =>
                   LET x == simplify.features[i].geometry.coordinates
                       d == simplify.settings.precision
                   IN  round_nested(round_nested(x, d), d) = round_nested(x, d)

---------------------------------------------------------------------------
(* C15 *)

\* What simplification leaves of the i-th input geometry: the library's result, or
\* the geometry itself when the library fell back or was not called.
AfterSimplification(i) ==
    IF simplify.calls[i] = <<>> \/ FellBack(i)
    THEN simplify.features[i].geometry
    ELSE ShapelySimplify(simplify.features[i].geometry,
                         simplify.settings.simplify_tolerance,
                         simplify.outcomes[i]).geometry

---------------------------------------------------------------------------
(* C16 *)

\* simplify_topojson has returned its report.
Reported == simplify.phase = "returned"

\* The byte size of the source as it was when simplify_topojson was called.
SizeBefore == simplify.original[simplify.source].size

\* The byte size of the written output.
SizeWritten == simplify.files[simplify.target.str].size

\* C16: in the report of simplify_topojson, original_size is the byte size of the
\* source as it was before simplification, new_size the byte size of the written
\* output, saved_bytes their difference and size_ratio new_size / original_size,
\* with a separate output path and in place.
C16_SizeReport ==
    Reported =>
        /\ simplify.report.original_size = SizeBefore
        /\ simplify.report.new_size = SizeWritten
        /\ simplify.report.saved_bytes = SizeBefore - SizeWritten
        /\ simplify.report.size_ratio = SizeRatio(SizeWritten, SizeBefore)

\* The part of C16 that holds: with a separate output path the report is as stated;
\* in place, original_size is the size of the written output, saved_bytes is 0 and
\* size_ratio is 1.
C16_SizeReportAsCoded ==
    Reported =>
        /\ ~IsNone(simplify.output) =>
               /\ simplify.report.original_size = SizeBefore
               /\ simplify.report.new_size = SizeWritten
               /\ simplify.report.saved_bytes = SizeBefore - SizeWritten
               /\ simplify.report.size_ratio = SizeRatio(SizeWritten, SizeBefore)
        /\ IsNone(simplify.output) =>
               /\ simplify.report.original_size = SizeWritten
               /\ simplify.report.new_size = SizeWritten
               /\ simplify.report.saved_bytes = 0
               /\ simplify.report.size_ratio = SizeRatio(SizeWritten, SizeWritten)

---------------------------------------------------------------------------
(* C17 *)

\* C17: the size_ratio of the report lies in [0, 1] and saved_bytes is not negative:
\* the written output is never larger than the source.
C17_RatioInUnitInterval ==
    Reported =>
        /\ simplify.report.size_ratio.num >= 0
        /\ simplify.report.size_ratio.num <= simplify.report.size_ratio.den
        /\ simplify.report.saved_bytes >= 0

---------------------------------------------------------------------------
(* The integrity checker *)

\* A collections.Counter: the keys in the order of their first increment, and the
\* counts.
EmptyCounter == [order |-> <<>>, count |-> [key \in {} |-> 0]]

Increment(counter, key) ==
    IF key \in DOMAIN counter.count
    THEN [counter EXCEPT !.count[key] = @ + 1]
    ELSE [order |-> Append(counter.order, key),
          count |-> [k \in DOMAIN counter.count \cup {key} |->
                        IF k = key THEN 1 ELSE counter.count[k]]]

\* A count that any occurrence satisfies.
IsDuplicate_Any(count) == count > 0

\* count > 1
IsDuplicate(count) == count > 1

\* [gid for gid, count in counter.items() if count > 1]
Duplicates(counter) ==
    LET dup(gid) == IsDuplicate(counter.count[gid])
    IN  SelectSeq(counter.order, dup)

\* props.get("iso3", "UNK") or "UNK", for geom.get("properties") or {}
ScopeOf(geom) ==
    IF IsNone(geom.properties) THEN "UNK"
    ELSE IF IsNone(geom.properties.iso3) \/ geom.properties.iso3.str = "" THEN "UNK"
    ELSE geom.properties.iso3.str

\* The string counted for a record: str(gid), or the marker when it has no id.
GidOf(geom) == IF IsNone(geom.id) THEN "<missing>" ELSE PyStr(geom.id)

\* The loop of find_duplicate_ids over the geometries from position i on.
RECURSIVE CountIds(_, _, _, _)
CountIds(geometries, i, global_ids, per_country) ==
    IF i > Len(geometries) THEN [global_ids |-> global_ids, per_country |-> per_country]
    ELSE LET geom == geometries[i]
             iso3 == ScopeOf(geom)
             gid == GidOf(geom)
             counter == IF iso3 \in DOMAIN per_country THEN per_country[iso3] ELSE EmptyCounter
         IN  CountIds(geometries, i + 1, Increment(global_ids, gid),
                      [s \in DOMAIN per_country \cup {iso3} |->
                          IF s = iso3 THEN Increment(counter, gid) ELSE per_country[s]])

\* find_duplicate_ids: the global duplicates, and the duplicates of each scope that
\* has any.
find_duplicate_ids(geometries) ==
    LET counted == CountIds(geometries, 1, EmptyCounter, [s \in {} |-> EmptyCounter])
        scopes == { s \in DOMAIN counted.per_country :
                        Duplicates(counted.per_country[s]) # <<>> }
    IN  [global_duplicates |-> Duplicates(counted.global_ids),
         country_duplicates |-> [s \in scopes |-> Duplicates(counted.per_country[s])]]

\* The most records handed to find_duplicate_ids.
MaxGeometries == 3

\* The records of a TopoJSON object: an id, or none, and an iso3, empty or none.
GeometryRecords ==
    { [id |-> id, properties |-> [iso3 |-> iso3]] :
        id \in {None, StrVal("A1"), StrVal("7"), IntVal(7)},
        iso3 \in {None, StrVal("KEN"), StrVal("UGA")} }
    \cup { [id |-> StrVal("A1"), properties |-> None],
           [id |-> None, properties |-> [iso3 |-> StrVal("")]] }

InitDuplicates ==
    /\ aggregate = EmptyDict
    /\ stats = ZeroStats
    /\ call = NoCall
    /\ nfeatures = 0
    /\ submitted = {}
    /\ history = <<>>
    /\ final_features = <<>>
    /\ mode = "ids"
    /\ simplify = NoSimplify
    /\ probe \in { [geometries |-> geometries, resolved |-> FALSE] :
                       geometries \in {<<>>} \cup Batches(GeometryRecords, MaxGeometries) }

\* main of optimize_global_topojson.py validating the loaded geometries.
validate_ids ==
    /\ mode = "ids"
    /\ ~probe.resolved
    /\ LET found == find_duplicate_ids(probe.geometries)
       IN  probe' = [geometries |-> probe.geometries, resolved |-> TRUE,
                     global_duplicates |-> found.global_duplicates,
                     country_duplicates |-> found.country_duplicates]
    /\ UNCHANGED <<aggregate, stats, call, nfeatures, submitted, history, final_features, mode,
                   simplify>>

NextDuplicates == validate_ids

SpecDuplicates == InitDuplicates /\ [][NextDuplicates]_vars

---------------------------------------------------------------------------
(* C18 *)

\* The records of the probed input that carry the id gid (in its string form, or
\* the marker for no id), and those of them in the scope.
RecordsWith(gid) ==
    { i \in 1..Len(probe.geometries) : GidOf(probe.geometries[i]) = gid }

RecordsWithIn(gid, scope) ==
    { i \in RecordsWith(gid) : ScopeOf(probe.geometries[i]) = scope }

ProbedGids == { GidOf(probe.geometries[i]) : i \in 1..Len(probe.geometries) }

ProbedScopes == { ScopeOf(probe.geometries[i]) : i \in 1..Len(probe.geometries) }

\* The members of a list, and that none of them is listed twice.
Members(list) == { list[i] : i \in 1..Len(list) }

NoRepeats(list) == Cardinality(Members(list)) = Len(list)

\* C18: find_duplicate_ids lists an id globally exactly when it is on more than one
\* record of the input, and under a scope (the iso3, UNK when there is none) exactly
\* when it is on more than one record of that scope; a scope without such an id is
\* not in the result; no id is listed twice.
C18_DuplicateIds ==
    probe.resolved =>
        /\ Members(probe.global_duplicates) =
               { gid \in ProbedGids : Cardinality(RecordsWith(gid)) > 1 }
        /\ NoRepeats(probe.global_duplicates)
        /\ DOMAIN probe.country_duplicates =
               { scope \in ProbedScopes :
                     \E gid \in ProbedGids : Cardinality(RecordsWithIn(gid, scope)) > 1 }
        /\ \A scope \in DOMAIN probe.country_duplicates :
               /\ Members(probe.country_duplicates[scope]) =
                      { gid \in ProbedGids : Cardinality(RecordsWithIn(gid, scope)) > 1 }
               /\ NoRepeats(probe.country_duplicates[scope])

\* Two records with iso3 KEN and id A1 gave A1 globally and under KEN.
C18_Witness ==
    /\ probe.resolved
    /\ probe.geometries = << [id |-> StrVal("A1"), properties |-> [iso3 |-> StrVal("KEN")]],
                             [id |-> StrVal("A1"), properties |-> [iso3 |-> StrVal("KEN")]] >>
    /\ probe.global_duplicates = <<"A1">>
    /\ probe.country_duplicates = [scope \in {"KEN"} |-> <<"A1">>]

---------------------------------------------------------------------------
(* C19 *)

\* C19: whenever a record of the input has no id, find_duplicate_ids reports the
\* marker <missing> globally and under the scope of that record.
C19_MissingIsReported ==
    probe.resolved =>
        \A i \in 1..Len(probe.geometries) :
            IsNone(probe.geometries[i].id) =>
                /\ "<missing>" \in Members(probe.global_duplicates)
                /\ ScopeOf(probe.geometries[i]) \in DOMAIN probe.country_duplicates
                /\ "<missing>" \in
                       Members(probe.country_duplicates[ScopeOf(probe.geometries[i])])

\* What holds instead: the marker is reported globally exactly when two or more
\* records have no id, and under a scope exactly when two or more of its records
\* have none.
C19_MissingAsCoded ==
    probe.resolved =>
        /\ "<missing>" \in Members(probe.global_duplicates)
               <=> Cardinality(RecordsWith("<missing>")) >= 2
        /\ \A scope \in ProbedScopes :
               (/\ scope \in DOMAIN probe.country_duplicates
                /\ "<missing>" \in Members(probe.country_duplicates[scope]))
               <=> Cardinality(RecordsWithIn("<missing>", scope)) >= 2

---------------------------------------------------------------------------
(* C20 *)

\* C20: every feature simplify_features returns has the id, the type and the
\* property bag of the input feature at its position, and find_duplicate_ids
\* reports for the output what it reports for the input: if there are no per-scope
\* duplicates before simplification there are none after it.
C20_IdsUntouched ==
    Simplifying =>
        /\ \A i \in 1..Len(simplify.processed) :
               /\ simplify.processed[i].id = simplify.features[i].id
               /\ simplify.processed[i].type = simplify.features[i].type
               /\ simplify.processed[i].properties = simplify.features[i].properties
        /\ Simplified =>
               /\ find_duplicate_ids(simplify.processed) = find_duplicate_ids(simplify.features)
               /\ DOMAIN find_duplicate_ids(simplify.features).country_duplicates = {}
                      => DOMAIN find_duplicate_ids(simplify.processed).country_duplicates = {}

\* Two features of KEN with different ids, clean before simplification, have been
\* simplified and rounded to other geometries, and are clean after it.
C20_Witness ==
    /\ Simplified
    /\ Len(simplify.features) = 2
    /\ simplify.settings.simplify_tolerance > 0
    /\ simplify.features[1].id = StrVal("A1")
    /\ simplify.features[2].id = StrVal("A2")
    /\ simplify.processed[1].geometry # simplify.features[1].geometry
    /\ simplify.processed[2].geometry # simplify.features[2].geometry
    /\ DOMAIN find_duplicate_ids(simplify.features).country_duplicates = {}
    /\ DOMAIN find_duplicate_ids(simplify.processed).country_duplicates = {}

---------------------------------------------------------------------------
(* C27 *)

\* The batch of the call that has just returned has distinct keys, and each of its
\* features is what the call stored under its key.
StoredDistinct ==
    /\ mode = "merge"
    /\ Returned
    /\ \A i, j \in 1..Len(call.features) :
           i # j => feature_key(call.features[i]) # feature_key(call.features[j])
    /\ \A i \in 1..Len(call.features) :
           /\ feature_key(call.features[i]) \in DOMAIN aggregate
           /\ aggregate[feature_key(call.features[i])] =
                  Candidate(call.features[i], call.source.priority,
                            call.source.source_year, call.source.source_label)

\* C27: applying merge_features again with a batch of distinct keys whose features
\* the first application stored, and the same priority and year, counts every
\* feature as updated: added = 0, updated = len(B), skipped = 0.
C27_ReapplyCountsUpdated ==
    StoredDistinct =>
        MergeFeatures(aggregate, call.features, call.source.priority,
                      call.source.source_year, call.source.source_label).stats
            = [added |-> 0, updated |-> Len(call.features), skipped |-> 0]

\* A batch of three features with distinct keys has been stored by one call.
C27_Witness ==
    /\ StoredDistinct
    /\ Len(call.features) = 3
    /\ stats.added = 3

---------------------------------------------------------------------------
(* C29 *)

\* The rank a is not above the rank b, in lexicographic order.
RankLeq(a, b) == a[1] < b[1] \/ (a[1] = b[1] /\ a[2] <= b[2])

\* C29: from one step to the next, every key of the aggregate stays in it with a
\* rank (priority, source year with missing = 0) that is not lower than before, and
\* an iteration of the merge loop leaves every entry but that of the incoming key
\* exactly as it was.
C29_RankNeverDecreases ==
    [][ (HoldsCandidates /\ HoldsCandidates') =>
          \A k \in DOMAIN aggregate :
              /\ k \in DOMAIN aggregate'
              /\ RankLeq(Ranks(aggregate)[k], Ranks(aggregate')[k])
              /\ (InLoop /\ k # IncomingKey) => aggregate'[k] = aggregate[k] ]_vars

\* A stored candidate has been replaced by one of a higher rank while another key
\* was in the aggregate.
C29_Witness ==
    /\ mode = "merge"
    /\ stats.updated >= 1
    /\ Cardinality(DOMAIN aggregate) >= 2
    /\ \E k \in DOMAIN aggregate :
           \E c \in SubmittedFor(k) :
               /\ RankLeq(<<c.priority, RankYear(c)>>, Ranks(aggregate)[k])
               /\ <<c.priority, RankYear(c)>> # Ranks(aggregate)[k]

---------------------------------------------------------------------------
(* C30 *)

Total(st) == st.added + st.updated + st.skipped

\* C30: for the batch a caller enters merge_features with, added + updated +
\* skipped of the returned stats is the number of features of the batch and the
\* aggregate has grown by added keys; every iteration of the loop counts its
\* feature once, adding a key exactly when it counts it as added, and when the call
\* has returned the three counters sum to the length of the batch.
C30_StatsAccount ==
    [][ /\ (Returned /\ mode \in {"start", "merge"} /\ mode' = "merge" /\ call'.idx = 1) =>
              LET result == MergeFeatures(aggregate, call'.features, call'.source.priority,
                                          call'.source.source_year,
                                          call'.source.source_label)
              IN  /\ Total(result.stats) = Len(call'.features)
                  /\ Cardinality(DOMAIN result.aggregate)
                         = Cardinality(DOMAIN aggregate) + result.stats.added
        /\ InLoop =>
              /\ Total(stats') = Total(stats) + 1
              /\ Cardinality(DOMAIN aggregate')
                     = Cardinality(DOMAIN aggregate) + (stats'.added - stats.added)
        /\ (mode = "merge" /\ Returned) => Total(stats) = Len(call.features) ]_vars

\* A call with a batch of three has returned with one feature added, one updated
\* and one skipped.
C30_Witness ==
    /\ mode = "merge"
    /\ Returned
    /\ Len(call.features) = 3
    /\ stats = [added |-> 1, updated |-> 1, skipped |-> 1]

---------------------------------------------------------------------------
(* C28 *)

CountryOf(feature) == Lower(Strip(OrEmpty(feature.properties.iso3)))

\* The two probed features belong to two different countries.
DifferentCountries ==
    /\ mode = "keys"
    /\ probe.resolved
    /\ CountryOf(probe.a) # ""
    /\ CountryOf(probe.b) # ""
    /\ CountryOf(probe.a) # CountryOf(probe.b)

\* The aggregate build_global_dataset holds after it merged the combined file of
\* the first feature's country and then that of the second's.
GlobalAggregate ==
    LET first == MergeFeatures(EmptyDict, <<probe.a>>, GlobalPriority, None,
                               "a_combined_areas.topojson").aggregate
    IN  MergeFeatures(first, <<probe.b>>, GlobalPriority, None,
                      "b_combined_areas.topojson").aggregate

\* C28: two features of different countries never have the same downloader key, and
\* the global build that merges one after the other keeps both.
C28_CountriesNeverShareKey ==
    DifferentCountries =>
        /\ probe.download[1] # probe.download[2]
        /\ Cardinality(DOMAIN GlobalAggregate) = 2

\* What the code does: with an identifier on either feature the keys of different
\* countries differ, the identifier rule being the only one that carries iso3.
C28_IdKeysCarryCountry ==
    (/\ DifferentCountries
     /\ ~IsNone(probe.a.properties.id)) =>
        /\ probe.download[1] # probe.download[2]
        /\ Cardinality(DOMAIN GlobalAggregate) = 2

---------------------------------------------------------------------------
(* main of optimize_global_topojson.py *)

InputPath == "data/global_areas.topojson"

\* main before its first statement.
MainEntered ==
    [phase |-> "main", global_dupes |-> <<>>, per_country_dupes |-> [s \in {} |-> <<>>],
     new_country_dupes |-> [s \in {} |-> <<>>], status |-> None]

\* main has been started on an input that exists or not, in place or with an
\* output path of its own.
InitOptimize ==
    /\ aggregate = EmptyDict
    /\ stats = ZeroStats
    /\ call = NoCall
    /\ nfeatures = 0
    /\ submitted = {}
    /\ history = <<>>
    /\ final_features = <<>>
    /\ mode = "simplify"
    /\ probe = MainEntered
    /\ simplify \in
           { [phase |-> "main", source |-> InputPath, output |-> StrVal(output),
              settings |-> settings, files |-> files, original |-> files,
              features |-> <<>>, processed |-> <<>>, calls |-> <<>>, outcomes |-> <<>>,
              target |-> None, report |-> None, error |-> None] :
                 output \in {InputPath, OutputPath},
                 settings \in Settings,
                 files \in { [path \in {} |-> File(1, <<>>)] }
                           \cup { [path \in {InputPath} |-> File(size, features)] :
                                      size \in Sizes \ {1}, features \in Artifacts } }

\* main up to its call of simplify_topojson: parser.error (status 2) when the input
\* is missing, else the first find_duplicate_ids, whose findings are only printed.
main_validate ==
    /\ mode = "simplify"
    /\ probe.phase = "main"
    /\ simplify.phase = "main"
    /\ IF simplify.source \notin DOMAIN simplify.files
       THEN /\ probe' = [probe EXCEPT !.phase = "exited", !.status = IntVal(2)]
            /\ UNCHANGED simplify
       ELSE LET found == find_duplicate_ids(simplify.files[simplify.source].features)
            IN  /\ probe' = [probe EXCEPT !.phase = "validated",
                                          !.global_dupes = found.global_duplicates,
                                          !.per_country_dupes = found.country_duplicates]
                /\ simplify' = [simplify EXCEPT !.phase = "called"]
    /\ UNCHANGED <<aggregate, stats, call, nfeatures, submitted, history, final_features, mode>>

\* The exit status main returns after the second find_duplicate_ids.
main_status(new_country_dupes) == IF DOMAIN new_country_dupes # {} THEN 1 ELSE 0

\* main after simplify_topojson returned: the ids of the written file are validated
\* again and only the duplicates within a country decide the status.
main_revalidate ==
    /\ mode = "simplify"
    /\ probe.phase = "validated"
    /\ simplify.phase = "returned"
    /\ LET new_geometries == simplify.files[simplify.report.output_path].features
           new_country_dupes == find_duplicate_ids(new_geometries).country_duplicates
       IN  probe' = [probe EXCEPT !.phase = "exited",
                                  !.new_country_dupes = new_country_dupes,
                                  !.status = IntVal(main_status(new_country_dupes))]
    /\ UNCHANGED <<aggregate, stats, call, nfeatures, submitted, history, final_features, mode,
                   simplify>>

\* An exception of simplify_topojson is not caught by main: the interpreter ends
\* with status 1.
main_raise ==
    /\ mode = "simplify"
    /\ probe.phase = "validated"
    /\ simplify.phase = "raised"
    /\ probe' = [probe EXCEPT !.phase = "exited", !.status = IntVal(1)]
    /\ UNCHANGED <<aggregate, stats, call, nfeatures, submitted, history, final_features, mode,
                   simplify>>

NextOptimize ==
    \/ main_validate
    \/ simplify_topojson_load
    \/ \E outcome \in Outcomes : simplify_features_loop(outcome)
    \/ \E size \in Sizes : write_output(size)
    \/ simplify_topojson_return
    \/ main_revalidate
    \/ main_raise

SpecOptimize == InitOptimize /\ [][NextOptimize]_vars

---------------------------------------------------------------------------
(* C21 *)

\* main has ended.
MainExited == mode = "simplify" /\ "status" \in DOMAIN probe /\ probe.phase = "exited"

\* The features of the input file main was started on.
InputGeometries ==
    IF simplify.source \in DOMAIN simplify.original
    THEN simplify.original[simplify.source].features ELSE <<>>

\* Two records of the list carry the same id (or both none).
IdRepeats(geometries) ==
    \E i, j \in 1..Len(geometries) :
        i # j /\ GidOf(geometries[i]) = GidOf(geometries[j])

\* Two records of the list carry the same id (or both none) in the same scope.
ScopeRepeats(geometries) ==
    \E i, j \in 1..Len(geometries) :
        /\ i # j
        /\ GidOf(geometries[i]) = GidOf(geometries[j])
        /\ ScopeOf(geometries[i]) = ScopeOf(geometries[j])

\* The output has been written with one feature for each feature of the input.
OutputWritten ==
    /\ simplify.phase = "returned"
    /\ simplify.output.str \in DOMAIN simplify.files
    /\ Len(simplify.files[simplify.output.str].features) = Len(InputGeometries)

\* C21 as stated: when main has ended on an input in which any id repeats (found by
\* either find_duplicate_ids), the output has been written and the status is not 0,
\* and the status is 0 only when neither validation found a duplicate.
C21_AnyDuplicateGivesNonZero ==
    MainExited =>
        /\ IdRepeats(InputGeometries) => (OutputWritten /\ probe.status # IntVal(0))
        /\ probe.status = IntVal(0) =>
               /\ probe.global_dupes = <<>>
               /\ DOMAIN probe.per_country_dupes = {}
               /\ find_duplicate_ids(simplify.files[simplify.output.str].features)
                      = [global_duplicates |-> <<>>, country_duplicates |-> [s \in {} |-> <<>>]]

\* C21 (amended): when main has ended on an input in which an id repeats within a
\* country, before or after the simplification, the output has been written and the
\* status is 1; when the simplification returned, the status is 0 exactly when no id
\* repeats within a country, whatever repeats across countries.
C21_ScopeDuplicatesGiveNonZero ==
    MainExited =>
        /\ ScopeRepeats(InputGeometries) =>
               /\ DOMAIN probe.per_country_dupes # {}
               /\ OutputWritten
               /\ ScopeRepeats(simplify.files[simplify.output.str].features)
               /\ probe.status = IntVal(1)
        /\ simplify.phase = "returned" =>
               /\ OutputWritten
               /\ probe.status = IntVal(0) <=> ~ScopeRepeats(InputGeometries)
               /\ probe.status = IntVal(0) <=>
                      ~ScopeRepeats(simplify.files[simplify.output.str].features)

\* main has ended with status 1 on an input with the same id twice in one country,
\* having written the output beside the input.
C21_Witness ==
    /\ MainExited
    /\ ScopeRepeats(InputGeometries)
    /\ simplify.output.str = OutputPath
    /\ OutputWritten
    /\ probe.status = IntVal(1)

---------------------------------------------------------------------------
(* The downloader: main, IPCAreaDownloader.__init__, run, process_country and
   build_global_dataset *)

\* The most features that the files read and the downloads of one run hold together.
MaxRead == 2

\* The rows of countries.csv, by their iso3.
Countries == <<"KEN", "UGA">>

\* The assessment year of a run started with --years 2024.
AssessmentYear == 2024

Point == [type |-> "Point", coordinates |-> <<4, 5>>]

EmptyPolygon == [type |-> "Polygon", coordinates |-> <<>>]

\* Features as the API answers them or a file on disk holds them: with a polygon,
\* with no geometry, with a point and with a polygon that has no coordinates.
RawFeatures ==
    { Feature(None, None, StrVal("North"), None, Polygon),
      Feature(None, None, StrVal("South"), None, None),
      Feature(None, None, None, None, Point),
      Feature(StrVal("A1"), None, StrVal("East"), None, EmptyPolygon) }

\* The test of filter_and_process_areas on a geometry: it is there, it is a polygon
\* or a multi-polygon and it has coordinates.
IsPolygonal(geometry) ==
    /\ ~IsNone(geometry)
    /\ geometry.type \in {"Polygon", "MultiPolygon"}
    /\ geometry.coordinates # <<>>

RECURSIVE filter_loop(_, _, _, _, _)
\* The loop of filter_and_process_areas from the i-th feature on.
filter_loop(features, i, seen_geometries, iso3, year) ==
    IF i > Len(features) THEN <<>>
    ELSE LET feature == features[i]
             geometry == feature.geometry
             source_props == feature.properties
             properties == [id    |-> source_props.id,
                            iso3  |-> StrVal(iso3),
                            title |-> StrVal(OrEmpty(source_props.title)),
                            year  |-> IF IsNone(source_props.year) THEN IntVal(year)
                                      ELSE source_props.year]
         IN  IF ~IsPolygonal(geometry) \/ JsonGeometry(geometry) \in seen_geometries
             THEN filter_loop(features, i + 1, seen_geometries, iso3, year)
             ELSE <<[geometry |-> geometry, properties |-> properties]>>
                  \o filter_loop(features, i + 1,
                                 seen_geometries \cup {JsonGeometry(geometry)}, iso3, year)

\* filter_and_process_areas: the features of the collection it returns, none when
\* it returns None.
filter_and_process_areas(features, iso3, year) == filter_loop(features, 1, {}, iso3, year)

\* A file on disk: not there, there but not readable as TopoJSON, or holding
\* features.
Absent == [exists |-> FALSE, readable |-> FALSE, features |-> <<>>]

Corrupt == [exists |-> TRUE, readable |-> FALSE, features |-> <<>>]

Stored(features) == [exists |-> TRUE, readable |-> TRUE, features |-> features]

\* The files of a country that a run can find: their features carry its iso3.
DiskFiles(iso3, n) ==
    {Absent, Corrupt, Stored(<<>>)}
    \cup { Stored(features) :
             features \in Batches({ [f EXCEPT !.properties.iso3 = StrVal(iso3)] :
                                      f \in RawFeatures }, n) }

\* load_existing_features: the features of the file, none on any exception.
load_existing_features(file) == IF file.readable THEN file.features ELSE <<>>

CombinedName(iso3) == iso3 \o "_combined_areas.topojson"

CombinedPath(iso3) == "data/" \o iso3 \o "/" \o CombinedName(iso3)

YearPath(iso3, year) == "data/" \o iso3 \o "/" \o iso3 \o "_" \o IntToStr(year) \o "_areas.topojson"

GlobalPath == "data/global_areas.topojson"

\* if features: self.merge_features(aggregated, features, ...)
MergeBatch(agg, features, source) ==
    IF features = <<>> THEN [aggregate |-> agg, stats |-> ZeroStats]
    ELSE MergeFeatures(agg, features, source.priority, source.source_year, source.source_label)

\* The last call of merge_features, returned.
LastCall(previous, features, source) ==
    IF features = <<>> THEN previous
    ELSE [features |-> features, source |-> source, idx |-> Len(features) + 1]

\* main of download_ipc_areas.py has parsed its arguments; IPC_KEY is set or not.
DownloaderEntered(args, ipc_key) ==
    [program |-> "download", phase |-> "main", args |-> args, ipc_key |-> ipc_key,
     data_dir |-> FALSE, country |-> 1, stage |-> "legacy", unread |-> {},
     last |-> "none", successful |-> 0, failed |-> 0,
     country_combined_files |-> <<>>, files |-> [path \in {} |-> Absent],
     global |-> "pending", status |-> None]

\* --precision and --simplify-tolerance as given to the downloader.
DownloaderArgs ==
    { [precision |-> d, simplify_tolerance |-> t] : d \in {-1, 4}, t \in {-1, 0} }

\* IPCAreaDownloader(...): without a key it raises at once; else it creates the data
\* directory and only then looks at precision and tolerance.  main turns the
\* exception into status 1.
downloader_init ==
    /\ mode = "download"
    /\ probe.phase = "main"
    /\ probe' =
           IF ~probe.ipc_key
           THEN [probe EXCEPT !.phase = "exited", !.status = IntVal(1)]
           ELSE IF probe.args.precision < 0 \/ probe.args.simplify_tolerance < 0
           THEN [probe EXCEPT !.data_dir = TRUE, !.phase = "exited", !.status = IntVal(1)]
           ELSE [probe EXCEPT !.data_dir = TRUE, !.phase = "run"]
    /\ UNCHANGED <<aggregate, stats, call, nfeatures, submitted, history, final_features, mode,
                   simplify>>

\* A run that gives up the remaining countries when process_country raises.
CountryDone_StopOnRaise(p, result) ==
    [p EXCEPT !.last = result,
              !.successful = IF result = "True" THEN @ + 1 ELSE @,
              !.failed = IF result = "True" THEN @ ELSE @ + 1,
              !.country = @ + 1,
              !.stage = "legacy",
              !.unread = {},
              !.phase = IF p.country = Len(Countries) \/ result = "raised"
                        THEN "global" ELSE "run"]

\* The loop of run after process_country returned True or False or raised.
CountryDone(p, result) ==
    [p EXCEPT !.last = result,
              !.successful = IF result = "True" THEN @ + 1 ELSE @,
              !.failed = IF result = "True" THEN @ ELSE @ + 1,
              !.country = @ + 1,
              !.stage = "legacy",
              !.unread = {},
              !.phase = IF p.country = Len(Countries) THEN "global" ELSE "run"]

\* The kinds of files that were there and could not be read, with one more.
Unread(p, file, kind) == IF file.exists /\ ~file.readable THEN p.unread \cup {kind} ELSE p.unread

\* The files with the one found on disk.
Found(files, path, file) == IF file.exists THEN Put(files, path, file) ELSE files

\* process_country up to the combined file of an earlier run: country_dir.mkdir may
\* raise, which run catches; the file, if there, is loaded and merged at priority -5.
process_country_legacy ==
    /\ mode = "download"
    /\ probe.phase = "run"
    /\ probe.stage = "legacy"
    /\ \E mkdir_ok \in BOOLEAN :
       \E file \in DiskFiles(Countries[probe.country], MaxRead - nfeatures) :
           LET source == Source(LegacyPriority, None, "legacy_combined")
               features == load_existing_features(file)
               merged == MergeBatch(EmptyDict, features, source)
           IN  IF ~mkdir_ok
               THEN /\ probe' = CountryDone(probe, "raised")
                    /\ UNCHANGED <<aggregate, stats, call, nfeatures>>
               ELSE /\ aggregate' = merged.aggregate
                    /\ stats' = merged.stats
                    /\ call' = LastCall(call, features, source)
                    /\ nfeatures' = nfeatures + Len(file.features)
                    /\ probe' = [probe EXCEPT
                                     !.stage = "existing",
                                     !.unread = Unread(probe, file, "legacy"),
                                     !.files = Found(@, CombinedPath(Countries[probe.country]),
                                                     file)]
    /\ UNCHANGED <<submitted, history, final_features, mode, simplify>>

\* process_country on the per-year file of an earlier run: loaded and merged at
\* priority 0 with the year of its name.
process_country_existing ==
    /\ mode = "download"
    /\ probe.phase = "run"
    /\ probe.stage = "existing"
    /\ \E file \in DiskFiles(Countries[probe.country], MaxRead - nfeatures) :
           LET source == Source(ExistingPriority, IntVal(AssessmentYear),
                                "existing:" \o IntToStr(AssessmentYear))
               features == load_existing_features(file)
               merged == MergeBatch(aggregate, features, source)
           IN  /\ aggregate' = merged.aggregate
               /\ stats' = merged.stats
               /\ call' = LastCall(call, features, source)
               /\ nfeatures' = nfeatures + Len(file.features)
               /\ probe' = [probe EXCEPT
                                !.stage = "download",
                                !.unread = Unread(probe, file, "existing"),
                                !.files = Found(@, YearPath(Countries[probe.country],
                                                            AssessmentYear), file)]
    /\ UNCHANGED <<submitted, history, final_features, mode, simplify>>

\* What the download of a year, the conversion of its features and the saving of
\* the per-year file come to.
DownloadOutcomes == {"download_failed", "convert_failed", "save_failed", "saved"}

\* process_country on the download of the year: nothing is merged when the download
\* failed, when the filter kept no feature or when the conversion failed; else the
\* per-year file is saved, if it can be, and the kept features are merged at
\* priority 10.
process_country_download ==
    /\ mode = "download"
    /\ probe.phase = "run"
    /\ probe.stage = "download"
    /\ \E outcome \in DownloadOutcomes :
       \E areas_data \in IF outcome = "download_failed" THEN {<<>>}
                         ELSE Batches(RawFeatures, MaxRead - nfeatures) :
           LET iso3 == Countries[probe.country]
               source == Source(DownloadPriority, IntVal(AssessmentYear),
                                "download:" \o IntToStr(AssessmentYear))
               geojson == filter_and_process_areas(areas_data, iso3, AssessmentYear)
               features == IF outcome = "convert_failed" THEN <<>> ELSE geojson
               merged == MergeBatch(aggregate, features, source)
           IN  /\ aggregate' = merged.aggregate
               /\ stats' = merged.stats
               /\ call' = LastCall(call, features, source)
               /\ nfeatures' = nfeatures + Len(areas_data)
               /\ probe' = [probe EXCEPT
                                !.stage = "return",
                                !.files = IF features # <<>> /\ outcome = "saved"
                                          THEN Put(@, YearPath(iso3, AssessmentYear),
                                                   Stored(features))
                                          ELSE @]
    /\ UNCHANGED <<submitted, history, final_features, mode, simplify>>

\* The rest of process_country: False when nothing was aggregated, when the features
\* cannot be converted or when the file cannot be opened for writing; else the
\* combined file is saved and remembered.  The aggregate, a local of process_country,
\* is gone when it returns.  With tolerance 0 simplify_output only
\* rounds, which leaves the whole-number coordinates of these features as they are.
process_country_return ==
    /\ mode = "download"
    /\ probe.phase = "run"
    /\ probe.stage = "return"
    /\ \E converts, saves \in BOOLEAN :
           LET iso3 == Countries[probe.country]
               sorted_entries == SortedValues(aggregate)
               final == [i \in 1..Len(sorted_entries) |-> sorted_entries[i].feature]
           IN  IF DOMAIN aggregate = {}
               THEN /\ probe' = CountryDone(probe, "False")
                    /\ UNCHANGED final_features
               ELSE /\ final_features' = final
                    /\ probe' =
                           IF converts /\ saves
                           THEN [CountryDone(probe, "True") EXCEPT
                                     !.files = Put(@, CombinedPath(iso3), Stored(final)),
                                     !.country_combined_files = Append(@, iso3)]
                           ELSE CountryDone(probe, "False")
    /\ aggregate' = EmptyDict
    /\ UNCHANGED <<stats, call, nfeatures, submitted, history, mode, simplify>>

\* The countries, in the order of their directories, whose combined file is on disk.
CombinedOnDisk(files) ==
    LET there(iso3) == CombinedPath(iso3) \in DOMAIN files
    IN  SelectSeq(Countries, there)

RECURSIVE GlobalMerge(_, _, _)
\* The loop of build_global_dataset over the combined files.
GlobalMerge(agg, combined_files, files) ==
    IF combined_files = <<>> THEN agg
    ELSE LET iso3 == Head(combined_files)
             features == load_existing_features(files[CombinedPath(iso3)])
         IN  GlobalMerge(MergeBatch(agg, features,
                                    Source(GlobalPriority, None, CombinedName(iso3))).aggregate,
                         Tail(combined_files), files)

\* build_global_dataset: what became of the global dataset.
GlobalOutcome(combined_files, aggregated, converts, saves) ==
    IF combined_files = <<>> THEN "no_files"
    ELSE IF DOMAIN aggregated = {} THEN "no_features"
    ELSE IF ~converts THEN "convert_failed"
    ELSE IF ~saves THEN "save_failed"
    ELSE "built"

\* build_global_dataset: the combined files of this run, or without any those found
\* on disk, are merged in sorted order at priority 0; every failure is a warning and
\* a plain return.
build_global_dataset ==
    /\ mode = "download"
    /\ probe.phase = "global"
    /\ \E converts, saves \in BOOLEAN :
           LET combined_files == IF probe.country_combined_files # <<>>
                                 THEN probe.country_combined_files
                                 ELSE CombinedOnDisk(probe.files)
               aggregated == GlobalMerge(EmptyDict, combined_files, probe.files)
               sorted_entries == SortedValues(aggregated)
               final == [i \in 1..Len(sorted_entries) |-> sorted_entries[i].feature]
               outcome == GlobalOutcome(combined_files, aggregated, converts, saves)
           IN  /\ aggregate' = aggregated
               /\ final_features' = IF outcome \in {"no_files", "no_features"}
                                    THEN final_features ELSE final
               /\ probe' = [probe EXCEPT
                                !.phase = "finish",
                                !.global = outcome,
                                !.files = IF outcome = "built"
                                          THEN Put(@, GlobalPath, Stored(final)) ELSE @]
    /\ UNCHANGED <<stats, call, nfeatures, submitted, history, mode, simplify>>

\* The end of run and of main, the index file written: run returns nothing and main
\* returns 0.
downloader_return ==
    /\ mode = "download"
    /\ probe.phase = "finish"
    /\ probe' = [probe EXCEPT !.phase = "exited", !.status = IntVal(0)]
    /\ UNCHANGED <<aggregate, stats, call, nfeatures, submitted, history, final_features, mode,
                   simplify>>

InitDownloader ==
    /\ aggregate = EmptyDict
    /\ stats = ZeroStats
    /\ call = NoCall
    /\ nfeatures = 0
    /\ submitted = {}
    /\ history = <<>>
    /\ final_features = <<>>
    /\ mode = "download"
    /\ probe \in { DownloaderEntered(args, ipc_key) :
                       args \in DownloaderArgs, ipc_key \in BOOLEAN }
    /\ simplify = NoSimplify


---------------------------------------------------------------------------
(* The combiner: main of combine_ipc_areas.py, and the three programs together *)

\* The areas the files under data/ hold for the combiner.
CombineAreas == { area \in Areas : ~IsNone(area.properties.iso3) }

\* --precision, --simplify-tolerance (in hundredths) and --skip-simplify; argparse
\* takes any integer and any float.
CombineArgs ==
    { [precision |-> d, simplify_tolerance |-> t, skip_simplify |-> skip] :
        d \in {-1, 1}, t \in {-12, 12}, skip \in BOOLEAN }

CombineEntered(args) ==
    [program |-> "combine", phase |-> "main", args |-> args, status |-> None]

InitCombine ==
    /\ aggregate = EmptyDict
    /\ stats = ZeroStats
    /\ call = NoCall
    /\ nfeatures = 0
    /\ submitted = {}
    /\ history = <<>>
    /\ final_features = <<>>
    /\ mode = "combine_main"
    /\ probe \in { CombineEntered(args) : args \in CombineArgs }
    /\ simplify = NoSimplify

\* main up to collect_all_features: without a data directory or without any
\* TopoJSON file under it main returns 1.
combine_main_discover ==
    /\ mode = "combine_main"
    /\ probe.phase = "main"
    /\ \E found \in {"no_data_dir", "no_files", "files"} :
           IF found = "files"
           THEN /\ mode' = "start"
                /\ probe' = [probe EXCEPT !.phase = "collect"]
           ELSE /\ mode' = "exited"
                /\ probe' = [probe EXCEPT !.phase = "exited", !.status = IntVal(1)]
    /\ UNCHANGED <<aggregate, stats, call, nfeatures, submitted, history, final_features,
                   simplify>>

\* simplify_topojson called on the source with the settings.
SimplifyCalled(source, settings, file) ==
    [phase |-> "called", source |-> source, output |-> None, settings |-> settings,
     files |-> [path \in {source} |-> file], original |-> [path \in {source} |-> file],
     features |-> <<>>, processed |-> <<>>, calls |-> <<>>, outcomes |-> <<>>,
     target |-> None, report |-> None, error |-> None]

\* main after collect_all_features: without features it returns 1; an exception of
\* the topology encoder in save_topology is not caught and ends it with status 1;
\* else the output is written and, unless skipped, handed to simplify_topojson with
\* the precision and the tolerance as they were given.
combine_main_save ==
    /\ mode = "combined"
    /\ probe.program = "combine"
    /\ probe.phase = "collect"
    /\ \E encodes, shape \in BOOLEAN, size \in Sizes \ {1} :
           LET settings == [precision |-> probe.args.precision,
                            simplify_tolerance |-> probe.args.simplify_tolerance,
                            shape |-> shape]
               saved == SimplifyCalled(SourcePath, settings, File(size, final_features))
           IN  IF final_features = <<>> \/ ~encodes
               THEN /\ mode' = "exited"
                    /\ probe' = [probe EXCEPT !.phase = "exited", !.status = IntVal(1)]
                    /\ UNCHANGED simplify
               ELSE IF probe.args.skip_simplify
               THEN /\ mode' = "exited"
                    /\ probe' = [probe EXCEPT !.phase = "exited", !.status = IntVal(0)]
                    /\ simplify' = [saved EXCEPT !.phase = "skipped"]
               ELSE /\ mode' = "simplify"
                    /\ probe' = [probe EXCEPT !.phase = "simplify"]
                    /\ simplify' = saved
    /\ UNCHANGED <<aggregate, stats, call, nfeatures, submitted, history, final_features>>

\* main after simplify_topojson returned: status 0.
combine_main_return ==
    /\ mode = "simplify"
    /\ probe.program = "combine"
    /\ probe.phase = "simplify"
    /\ simplify.phase = "returned"
    /\ probe' = [probe EXCEPT !.phase = "exited", !.status = IntVal(0)]
    /\ UNCHANGED <<aggregate, stats, call, nfeatures, submitted, history, final_features, mode,
                   simplify>>

\* precision, simplify_tolerance (in hundredths) and shape of a direct call of
\* simplify_topojson, which takes whatever it is given.
EntrySettings ==
    { [precision |-> d, simplify_tolerance |-> t, shape |-> sh] :
        d \in {-1, 1}, t \in {-12, 12}, sh \in BOOLEAN }

SimplifyEntered(settings) ==
    [program |-> "simplify", phase |-> "called", args |-> settings, status |-> None]

\* simplify_topojson called in place on a source that holds features.
InitEntry ==
    /\ aggregate = EmptyDict
    /\ stats = ZeroStats
    /\ call = NoCall
    /\ nfeatures = 0
    /\ submitted = {}
    /\ history = <<>>
    /\ final_features = <<>>
    /\ mode = "simplify"
    /\ \E settings \in EntrySettings, features \in Batches(Areas, MaxAreas) :
           /\ probe = SimplifyEntered(settings)
           /\ simplify = SimplifyCalled(SourcePath, settings, File(3, features))

\* One of the three programs is started.
InitPipeline == InitDownloader \/ InitCombine \/ InitEntry

NextPipeline ==
    \/ downloader_init
    \/ process_country_legacy
    \/ process_country_existing
    \/ process_country_download
    \/ process_country_return
    \/ build_global_dataset
    \/ downloader_return
    \/ combine_main_discover
    \/ \E readable \in BOOLEAN,
          features \in {<<>>} \cup Batches(CombineAreas, MaxAreas - nfeatures) :
           collect_file(readable, features)
    \/ collect_return
    \/ combine_main_save
    \/ combine_main_return
    \/ simplify_topojson_load
    \/ \E outcome \in Outcomes : simplify_features_loop(outcome)
    \/ \E size \in Sizes : write_output(size)
    \/ simplify_topojson_return

SpecPipeline == InitPipeline /\ [][NextPipeline]_vars

---------------------------------------------------------------------------
(* C22 *)

\* The program was started with a negative precision or a negative tolerance.
InvalidParameters ==
    /\ "args" \in DOMAIN probe
    /\ probe.args.precision < 0 \/ probe.args.simplify_tolerance < 0

\* No processing step has happened: the downloader has created no directory and has
\* not begun its run, the combiner has read no file and written none, and
\* simplify_topojson has loaded no feature and written no file.
NothingProcessed ==
    /\ probe.program = "download" =>
           /\ ~probe.data_dir
           /\ probe.phase \in {"main", "exited"}
    /\ probe.program = "combine" =>
           /\ mode \in {"combine_main", "exited"}
           /\ nfeatures = 0
           /\ simplify = NoSimplify
    /\ probe.program = "simplify" =>
           /\ simplify.phase \in {"called", "raised"}
           /\ simplify.files = simplify.original

\* The program has ended without reporting an error.
EndedWithoutError ==
    \/ probe.phase = "exited" /\ probe.status = IntVal(0)
    \/ probe.program = "simplify" /\ simplify.phase = "returned"

\* C22: a program started with a negative precision or a negative tolerance never
\* takes a processing step and never ends without an error.
C22_InvalidParametersFailFast ==
    InvalidParameters => (NothingProcessed /\ ~EndedWithoutError)

\* What the code does: the downloader with a negative precision or tolerance (and a
\* key) ends with status 1 in its constructor, before its run, though after it
\* created the data directory.
C22_DownloaderRejects ==
    (InvalidParameters /\ probe.program = "download") =>
        /\ probe.phase \in {"main", "exited"}
        /\ probe.phase = "exited" => probe.status = IntVal(1)
        /\ probe.data_dir <=> (probe.phase = "exited" /\ probe.ipc_key)

---------------------------------------------------------------------------
(* C23 *)

\* C23: every feature of the batch merge_features was last called with, whatever
\* the source of the batch, has a Polygon or MultiPolygon geometry with coordinates.
C23_OnlyPolygonsAreMerged ==
    mode = "download" =>
        \A i \in 1..Len(call.features) : IsPolygonal(call.features[i].geometry)

\* What the code does: the features of a downloaded batch have passed the filter.
C23_DownloadsAreFiltered ==
    (mode = "download" /\ call.source.priority = DownloadPriority) =>
        \A i \in 1..Len(call.features) : IsPolygonal(call.features[i].geometry)

---------------------------------------------------------------------------
(* C24 *)

\* This step of process_country found a file that it could not read.
UnreadableBatch ==
    /\ mode = "download"
    /\ probe.phase = "run"
    /\ probe'.phase = "run"
    /\ probe'.country = probe.country
    /\ probe'.unread # probe.unread

\* This step of collect_all_features got no feature out of its file.
UnreadableFile ==
    /\ probe.program = "combine"
    /\ mode \in {"start", "combine"}
    /\ mode' = "combine"
    /\ nfeatures' = nfeatures

\* process_country raised in this step.
CountryRaised ==
    /\ mode = "download"
    /\ probe.phase = "run"
    /\ probe'.country = probe.country + 1
    /\ probe'.last = "raised"

\* C24: a step of process_country on a file it cannot read leaves the aggregate as
\* it is and goes on to the next batch of the same country; a file the combiner gets
\* no feature from leaves its aggregate as it is and the loop over the files goes
\* on; and when process_country raises, run counts a failure and goes on to the
\* next country, or to the global dataset after the last one.
C24_LocalFailuresAreIsolated ==
    [][ /\ UnreadableBatch =>
              /\ aggregate' = aggregate
              /\ probe'.stage = IF probe.stage = "legacy" THEN "existing" ELSE "download"
        /\ UnreadableFile => aggregate' = aggregate
        /\ CountryRaised =>
              /\ probe'.failed = probe.failed + 1
              /\ probe'.status = None
              /\ probe'.phase = IF probe.country < Len(Countries) THEN "run" ELSE "global"
              /\ probe'.stage = "legacy" ]_vars

\* After process_country raised for the first country, the second one could read
\* neither its combined file nor its per-year file and has merged its download.
C24_Witness ==
    /\ mode = "download"
    /\ probe.phase = "run"
    /\ probe.country = 2
    /\ probe.failed = 1
    /\ probe.stage = "return"
    /\ probe.unread = {"legacy", "existing"}
    /\ DOMAIN aggregate # {}

---------------------------------------------------------------------------
(* C25 *)

\* The downloader has ended and its run did not build the global dataset.
GlobalNotBuilt ==
    /\ probe.program = "download"
    /\ probe.phase = "exited"
    /\ probe.global \in {"no_files", "no_features", "convert_failed", "save_failed"}

\* The combiner has ended having found files and extracted no feature from them, or
\* having failed to encode the features.
CombineFailed ==
    /\ probe.program = "combine"
    /\ probe.phase = "exited"
    /\ mode = "exited"
    /\ simplify = NoSimplify
    /\ nfeatures > 0 \/ final_features = <<>>

\* C25: when the global dataset could not be built, no global file has been written
\* and the downloader ends with a status other than 0; when the combiner has no
\* feature or cannot encode them, it has written nothing and ends with status 1.
C25_FailuresAreSignalled ==
    /\ GlobalNotBuilt =>
           /\ GlobalPath \notin DOMAIN probe.files
           /\ probe.status # IntVal(0)
    /\ CombineFailed => probe.status = IntVal(1)

\* What the code does: a process_country that ends with nothing aggregated or with
\* a failed conversion returns False, counted as a failure, without writing or
\* remembering a combined file; a failed global build writes no global file; and the
\* combiner without features ends with status 1.
C25_FailuresAsCoded ==
    [][ /\ (/\ mode = "download"
            /\ probe.phase = "run"
            /\ probe.stage = "return"
            /\ probe'.last = "False") =>
               /\ probe'.files = probe.files
               /\ probe'.country_combined_files = probe.country_combined_files
               /\ probe'.failed = probe.failed + 1
        /\ (/\ mode = "download"
            /\ probe.phase = "run"
            /\ probe.stage = "return"
            /\ DOMAIN aggregate = {}) => probe'.last = "False"
        /\ (/\ mode = "download"
            /\ probe.phase = "global"
            /\ probe'.global # "built") => probe'.files = probe.files
        /\ (mode = "combined" /\ final_features = <<>>) =>
               /\ probe'.status = IntVal(1)
               /\ simplify' = NoSimplify ]_vars

---------------------------------------------------------------------------
(* Features as objects: copy.deepcopy in merge_features and the JSON round trip in
   simplify_feature *)

\* The most changes a caller makes to its features after the call.
MaxChanges == 2

\* A reference to the object at an address of the heap.
Ref(addr) == [ref |-> addr]

IsRef(v) == "ref" \in DOMAIN v

\* A feature put on the heap: its properties dict, its geometry dict if it has one,
\* and the feature dict that refers to them.
Allocate(heap, value) ==
    LET base == Len(heap)
        has_geometry == IsDict(value.geometry)
    IN  [heap |-> heap \o <<value.properties>>
                       \o (IF has_geometry THEN <<value.geometry>> ELSE <<>>)
                       \o <<[value EXCEPT
                                 !.properties = Ref(base + 1),
                                 !.geometry = IF has_geometry THEN Ref(base + 2) ELSE @]>>,
         addr |-> base + (IF has_geometry THEN 3 ELSE 2)]

\* The feature at an address with the dicts it refers to: its value.
Deref(heap, addr) ==
    LET object == heap[addr]
    IN  [object EXCEPT
             !.properties = heap[@.ref],
             !.geometry = IF IsRef(@) THEN heap[@.ref] ELSE @]

\* No copy at all: the same object.
DeepCopy_Alias(heap, addr) == [heap |-> heap, addr |-> addr]

\* copy.deepcopy(feature) and json.loads(json.dumps(feature)): new objects with the
\* value of the feature.
DeepCopy(heap, addr) == Allocate(heap, Deref(heap, addr))

RECURSIVE AllocateAll(_, _, _)
\* The features of a batch put on the heap one after the other, and their addresses.
AllocateAll(heap, addrs, values) ==
    IF values = <<>> THEN [heap |-> heap, addrs |-> addrs]
    ELSE LET one == Allocate(heap, Head(values))
         IN  AllocateAll(one.heap, Append(addrs, one.addr), Tail(values))

\* The batch a caller holds when it calls merge_features or simplify_features.
CallerHolds(program, values, settings) ==
    LET made == AllocateAll(<<>>, <<>>, values)
    IN  [program |-> program, heap |-> made.heap, inputs |-> made.addrs,
         before |-> values, done |-> 0, outputs |-> <<>>, changes |-> 0,
         settings |-> settings]

InitCopy ==
    /\ aggregate = EmptyDict
    /\ stats = ZeroStats
    /\ call = NoCall
    /\ nfeatures = 0
    /\ submitted = {}
    /\ history = <<>>
    /\ final_features = <<>>
    /\ mode = "copy"
    /\ simplify = NoSimplify
    /\ \/ \E values \in Batches(OrderFeatures, MaxAreas) :
              probe = CallerHolds("merge", values,
                                  [precision |-> 1, simplify_tolerance |-> 0, shape |-> TRUE])
       \/ \E values \in Batches(Areas, MaxAreas), settings \in Settings :
              probe = CallerHolds("simplify", values, settings)

\* One iteration of the loop of merge_features on the caller's objects: the copy is
\* what the candidate refers to.
merge_features_copy ==
    /\ mode = "copy"
    /\ probe.program = "merge"
    /\ probe.done < Len(probe.inputs)
    /\ LET copied == DeepCopy(probe.heap, probe.inputs[probe.done + 1])
           feature_copy == Deref(copied.heap, copied.addr)
           key == feature_key(feature_copy)
           candidate == [Candidate(feature_copy, DownloadPriority, IntVal(AssessmentYear),
                                   "download:" \o IntToStr(AssessmentYear))
                             EXCEPT !.feature = copied.addr]
       IN  /\ probe' = [probe EXCEPT !.heap = copied.heap, !.done = @ + 1]
           /\ IF key \notin DOMAIN aggregate
              THEN /\ aggregate' = Put(aggregate, key, candidate)
                   /\ stats' = [stats EXCEPT !.added = @ + 1]
              ELSE IF Replace(candidate, aggregate[key])
              THEN /\ aggregate' = Put(aggregate, key, candidate)
                   /\ stats' = [stats EXCEPT !.updated = @ + 1]
              ELSE /\ aggregate' = aggregate
                   /\ stats' = [stats EXCEPT !.skipped = @ + 1]
    /\ UNCHANGED <<call, nfeatures, submitted, history, final_features, mode, simplify>>

\* One iteration of simplify_features on the caller's objects: the geometry of the
\* copy is replaced by the simplified one and its coordinates by the rounded ones.
simplify_feature_copy(outcome) ==
    /\ mode = "copy"
    /\ probe.program = "simplify"
    /\ probe.done < Len(probe.inputs)
    /\ LET copied == DeepCopy(probe.heap, probe.inputs[probe.done + 1])
           feature_copy == Deref(copied.heap, copied.addr)
           result == simplify_feature(feature_copy, probe.settings.precision,
                                      probe.settings.simplify_tolerance,
                                      probe.settings.shape, outcome).feature
           geometry == copied.heap[copied.addr].geometry
       IN  probe' = [probe EXCEPT
                         !.heap = IF IsRef(geometry)
                                  THEN [copied.heap EXCEPT ![geometry.ref] = result.geometry]
                                  ELSE copied.heap,
                         !.done = @ + 1,
                         !.outputs = Append(@, copied.addr)]
    /\ UNCHANGED <<aggregate, stats, call, nfeatures, submitted, history, final_features, mode,
                   simplify>>

\* After the call the caller changes one of the features it passed: the title in
\* its properties, or the type in its geometry.
caller_changes(i, what) ==
    /\ mode = "copy"
    /\ probe.done = Len(probe.inputs)
    /\ probe.changes < MaxChanges
    /\ i \in 1..Len(probe.inputs)
    /\ LET object == probe.heap[probe.inputs[i]]
       IN  /\ what = "geometry" => IsRef(object.geometry)
           /\ probe' = [probe EXCEPT
                            !.changes = @ + 1,
                            !.heap = IF what = "title"
                                     THEN [@ EXCEPT ![object.properties.ref].title =
                                                        StrVal("Changed")]
                                     ELSE [@ EXCEPT ![object.geometry.ref].type = "Point"]]
    /\ UNCHANGED <<aggregate, stats, call, nfeatures, submitted, history, final_features, mode,
                   simplify>>

NextCopy ==
    \/ merge_features_copy
    \/ \E outcome \in Outcomes : simplify_feature_copy(outcome)
    \/ \E i \in 1..MaxAreas, what \in {"title", "geometry"} : caller_changes(i, what)

SpecCopy == InitCopy /\ [][NextCopy]_vars

---------------------------------------------------------------------------
(* C26 *)

\* The addresses of the features the call has stored or returned.
Produced ==
    IF probe.program = "merge"
    THEN { aggregate[key].feature : key \in DOMAIN aggregate }
    ELSE { probe.outputs[i] : i \in 1..Len(probe.outputs) }

\* C26: an iteration of merge_features or of simplify_features leaves the value of
\* every feature of the caller's batch as it was, and a change the caller makes to
\* one of its features afterwards leaves the value of every stored candidate and of
\* every returned feature as it was.
C26_CopiesAreIndependent ==
    [][ mode = "copy" =>
          /\ probe'.changes = probe.changes =>
                 \A i \in 1..Len(probe.inputs) :
                     Deref(probe'.heap, probe.inputs[i]) = Deref(probe.heap, probe.inputs[i])
          /\ probe'.changes # probe.changes =>
                 \A addr \in Produced :
                     Deref(probe'.heap, addr) = Deref(probe.heap, addr) ]_vars

\* The caller has changed a feature whose copy merge_features had stored, and the
\* stored candidate still has the value the feature had at the call.
C26_Witness ==
    /\ mode = "copy"
    /\ probe.program = "merge"
    /\ probe.changes >= 1
    /\ \E i \in 1..Len(probe.inputs) :
           /\ Deref(probe.heap, probe.inputs[i]) # probe.before[i]
           /\ \E key \in DOMAIN aggregate :
                  Deref(probe.heap, aggregate[key].feature) = probe.before[i]

=============================================================================
